---- MODULE Spec2Model ----
(***************************************************************************)
(* A model of the animation renderer:                                      *)
(*   - the video encoder adapter (VideoEncoder: start / writeFrame /       *)
(*     finish / kill) together with the child process, its stdin stream    *)
(*     and the readiness timer it listens to;                              *)
(*   - the frame loop FrameGenerator.generateAnimation that drives it;     *)
(*   - the timeline evaluator (getObjectStateAtTime and its helpers);      *)
(*   - validateScene and generateSceneAnimation;                           *)
(*   - convertImageDataToRGB and renderSVGPath.                            *)
(*                                                                         *)
(* The specifications share the variables:                                 *)
(*   Spec             generateAnimation driving one encoder                *)
(*   SpecApi          a caller using the encoder's four methods directly   *)
(*   SpecTimeline     the timeline evaluator applied to bounded scenes     *)
(*   SpecSingleTrack  the evaluator on scenes with one track               *)
(*   SpecValidate     validateScene applied to bounded scenes              *)
(*   SpecScene        generateSceneAnimation: validate, markup, render     *)
(*   SpecConvert      convertImageDataToRGB applied to bounded images      *)
(*   SpecPath         renderSVGPath applied to bounded paths               *)
(***************************************************************************)
EXTENDS Integers, Sequences, FiniteSets, TLC

VARIABLES
    mode,        \* which client runs: "pipeline", "api", "timeline", "validate",
                 \* "convert" or "path"
    cfg,         \* FrameGenerator: config [fps, duration] and the easing function
    gen,         \* generateAnimation: [pc, frameNumber, drawn, err, frame]
    handle,      \* VideoEncoder.ffmpegProcess: "null" or "proc"
    proc,        \* the child process: [state, exitCode, listeners, killed, errorEmitted]
    stdin,       \* its input stream: [state, listeners, needDrain, errored]
    timerArmed,  \* the 100 ms setTimeout of start() is still to fire
    startP,      \* the promise of start(): [st, err]
    wf,          \* the promises of the writeFrame calls, in call order
    finishP,     \* the promise of the last finish() call
    calls,       \* how often start / finish / kill were called, and the adapter's phase
    crashed,     \* an event escaped as an uncaught exception
    scene,       \* timeline: the AnimationScene under evaluation
    evalAt,      \* timeline: [obj, time] of the last evaluation, or NoEval
    objState,    \* timeline: the ObjectState it returned
    sg,          \* validateScene / generateSceneAnimation: [pc, errors, err, latexRuns]
    img,         \* convertImageDataToRGB: [width, height, data, rgb, converted]
    svg          \* renderSVGPath: [path, ops, steps, rendered]

vars == <<mode, cfg, gen, handle, proc, stdin, timerArmed, startP, wf, finishP,
          calls, crashed, scene, evalAt, objState, sg, img, svg>>

encVars == <<handle, proc, stdin, timerArmed, startP, wf, finishP, calls, crashed>>
tlVars == <<scene, evalAt, objState, sg, img, svg>>

(***************************************************************************)
(* Bounds                                                                  *)
(***************************************************************************)
MaxFps == 3
MaxDuration == 2
MaxApiWrites == 2

(***************************************************************************)
(* Numbers.  A JavaScript number is modelled as an exact rational <<n, d>>  *)
(* in lowest terms with d > 0; <<0, 0>> is NaN.                            *)
(***************************************************************************)
Abs(n) == IF n < 0 THEN 0 - n ELSE n

RECURSIVE Gcd(_, _)
Gcd(a, b) == IF b = 0 THEN a ELSE Gcd(b, a % b)

NaN == <<0, 0>>

Rat(n, d) ==
    IF d = 0 THEN NaN
    ELSE LET g == Gcd(Abs(n), Abs(d))
             sgn == IF d < 0 THEN 0 - 1 ELSE 1
         IN <<(sgn * n) \div g, (sgn * d) \div g>>

RInt(n) == <<n, 1>>
Zero == <<0, 1>>
One == <<1, 1>>
Half == <<1, 2>>

RAdd(a, b) == Rat(a[1] * b[2] + b[1] * a[2], a[2] * b[2])
RSub(a, b) == Rat(a[1] * b[2] - b[1] * a[2], a[2] * b[2])
RMul(a, b) == Rat(a[1] * b[1], a[2] * b[2])
RDiv(a, b) == IF a[2] = 0 \/ b[2] = 0 THEN NaN ELSE Rat(a[1] * b[2], a[2] * b[1])
RLt(a, b) == a[2] # 0 /\ b[2] # 0 /\ a[1] * b[2] < b[1] * a[2]
RGe(a, b) == a[2] # 0 /\ b[2] # 0 /\ a[1] * b[2] >= b[1] * a[2]
RCube(a) == RMul(a, RMul(a, a))

\* Math.round: the nearest integer, halves upwards; Math.round(NaN) is NaN,
\* for which the integer NaNRounded stands.
NaNRounded == 0 - 1
RRound(a) == IF a[2] = 0 THEN NaNRounded ELSE (2 * a[1] + a[2]) \div (2 * a[2])

(***************************************************************************)
(* Values of the timeline.  One record shape carries every JavaScript      *)
(* value the evaluator handles:                                            *)
(*   num   the number x + y * pi      pt   the point {x, y}                *)
(*   str   the colour string c        null / undefined                    *)
(* A colour string c is <<format, r, g, b>>: "hex" a 6-digit hex colour,   *)
(* "rgb" the text "rgb(r, g, b)", "raw" any other text.                    *)
(***************************************************************************)
NoColor == <<"", 0, 0, 0>>
Num(r) == [k |-> "num", x |-> r, y |-> Zero, c |-> NoColor]
NumPi(r, turns) == [k |-> "num", x |-> r, y |-> turns, c |-> NoColor]
Pt(x, y) == [k |-> "pt", x |-> x, y |-> y, c |-> NoColor]
Str(c) == [k |-> "str", x |-> Zero, y |-> Zero, c |-> c]
Null == [k |-> "null", x |-> Zero, y |-> Zero, c |-> NoColor]
Undefined == [k |-> "undefined", x |-> Zero, y |-> Zero, c |-> NoColor]
Hex(r, g, b) == Str(<<"hex", r, g, b>>)

\* a.x of a value: undefined (NaN in arithmetic) unless a is a point.
FieldX(a) == IF a.k = "pt" THEN a.x ELSE NaN
FieldY(a) == IF a.k = "pt" THEN a.y ELSE NaN

(***************************************************************************)
(* core/interpolation.ts                                                   *)
(***************************************************************************)
\* lerp on rationals: start + (end - start) * t
lerpR(start, end, t) == RAdd(start, RMul(RSub(end, start), t))

\* lerp on numbers x + y*pi, t rational
lerp(start, end, t) ==
    NumPi(lerpR(start.x, end.x, t), lerpR(start.y, end.y, t))

lerpPoint(start, end, t) ==
    Pt(lerpR(FieldX(start), FieldX(end), t), lerpR(FieldY(start), FieldY(end), t))

linearSquared(t) == RMul(t, t)

linear(t) == t

easeInOutCubic(t) ==
    IF RLt(t, Half)
    THEN RMul(RInt(4), RCube(t))
    ELSE RSub(One, RDiv(RCube(RAdd(RMul(RInt(0 - 2), t), RInt(2))), RInt(2)))

easeInCubic(t) == RCube(t)

easeOutCubicOvershoot(t) == RSub(One, RCube(RSub(t, One)))

easeOutCubic(t) == RSub(One, RCube(RSub(One, t)))

\* The easing functions a scene track or a FrameGenerator is given, by name.
Easings == {"linear", "easeInOut", "easeIn", "easeOut"}

(***************************************************************************)
(* Promises and errors                                                     *)
(***************************************************************************)
NoPromise == [st |-> "none", err |-> "none"]
Pending == [st |-> "pending", err |-> "none"]
Resolved == [st |-> "resolved", err |-> "none"]
Rejected(e) == [st |-> "rejected", err |-> e]

\* resolve()/reject() of an already settled promise change nothing.
Settle(p, q) == IF p.st = "pending" THEN q ELSE p

ErrSpawn == "FFmpeg failed"
ErrExit(code) == <<"FFmpeg exited with code", code>>
ErrNotStarted == "FFmpeg process not started"
ErrStream == "stream error"
ErrWriteAfterEnd == "write after end"
ErrDraw == "render callback error"

ExitCodes == {"0", "1"}

(***************************************************************************)
(* VideoEncoder: the decisions its code takes                              *)
(***************************************************************************)

\* start(), the 'close' listener: a non-zero code rejects, code 0 resolves.
StartOnClose(code) == IF code # "0" THEN Rejected(ErrExit(code)) ELSE Resolved

FinishOnCloseAlwaysResolves(code) == Resolved

\* finish(), the 'close' listener: a non-zero code rejects, code 0 resolves.
FinishOnClose(code) == IF code # "0" THEN Rejected(ErrExit(code)) ELSE Resolved

\* writeFrame(): "if (!this.ffmpegProcess?.stdin) throw".
WriteGuardFails(h) == h = "null"

Listener(ev, id) == [ev |-> ev, id |-> id]

OnDrainKeepsErrorListener(ls, id) == ls \ {Listener("drain", id)}

\* onDrain: the once('drain') listener is gone when it runs; it removes the
\* 'error' listener of the same call.
OnDrain(ls, id) == ls \ {Listener("drain", id), Listener("error", id)}

OnErrorKeepsDrainListener(ls, id) == ls \ {Listener("error", id)}

\* onError: the once('error') listener is gone when it runs; it removes the
\* 'drain' listener of the same call.
OnError(ls, id) == ls \ {Listener("drain", id), Listener("error", id)}

\* A writeFrame promise: flushed = what stdin.write() returned, bytes = the
\* stream took the frame, settles = how often resolve/reject were invoked on
\* it, phase = the adapter's phase at the call.
WfRec(p, flushed, bytes, n) ==
    [st |-> p.st, err |-> p.err, flushed |-> flushed, bytes |-> bytes,
     settles |-> n, phase |-> calls.phase]

WfSettle(w, q) == [w EXCEPT !.st = IF w.st = "pending" THEN q.st ELSE w.st,
                            !.err = IF w.st = "pending" THEN q.err ELSE w.err,
                            !.settles = w.settles + 1]

(***************************************************************************)
(* VideoEncoder methods.  Each is the whole method body; the caller adds   *)
(* what it does with the returned promise.                                 *)
(***************************************************************************)

TotalFrames == cfg.fps * cfg.duration

\* start(): spawn, register 'error' and 'close' on the process, arm the timer.
\* spawn() returns a ChildProcess even when the spawn fails; the failure is
\* reported by the 'error' event.
EncStart ==
    \E ok \in BOOLEAN :
        /\ handle' = "proc"
        /\ proc' = [state |-> IF ok THEN "running" ELSE "failed",
                    exitCode |-> "none",
                    listeners |-> proc.listeners \cup {"start.error", "start.close"},
                    killed |-> FALSE,
                    errorEmitted |-> FALSE]
        /\ stdin' = [state |-> "open", listeners |-> {}, needDrain |-> FALSE,
                     errored |-> FALSE]
        /\ timerArmed' = TRUE
        /\ startP' = Pending
        /\ calls' = [calls EXCEPT !.start = @ + 1, !.phase = "Started"]
        /\ UNCHANGED <<wf, finishP, crashed>>

\* writeFrame(frameData).  stdin.write() on an open stream takes the bytes and
\* returns true (flushed) or false (backpressure, a 'drain' will follow).  On
\* an ended stream it takes nothing, returns false and the stream raises the
\* write-after-end error on the next tick, which the 'error' listener just
\* registered receives.  On a destroyed stream it takes nothing, returns
\* false and no event follows.
EncWriteFrame ==
    LET id == Len(wf) + 1 IN
    IF WriteGuardFails(handle)
    THEN /\ wf' = Append(wf, WfRec(Rejected(ErrNotStarted), FALSE, FALSE, 1))
         /\ UNCHANGED <<handle, proc, stdin, timerArmed, startP, finishP, calls, crashed>>
    ELSE
      CASE stdin.state = "open" ->
             \E flushed \in BOOLEAN :
                /\ wf' = Append(wf, IF flushed THEN WfRec(Resolved, TRUE, TRUE, 1)
                                               ELSE WfRec(Pending, FALSE, TRUE, 0))
                /\ stdin' = IF flushed THEN stdin
                            ELSE [stdin EXCEPT
                                    !.listeners = @ \cup {Listener("drain", id),
                                                          Listener("error", id)},
                                    !.needDrain = TRUE]
                /\ UNCHANGED <<handle, proc, timerArmed, startP, finishP, calls, crashed>>
        [] stdin.state = "ended" ->
                /\ wf' = Append(wf, WfRec(Rejected(ErrWriteAfterEnd), FALSE, FALSE, 1))
                /\ stdin' = [stdin EXCEPT
                               !.state = "destroyed",
                               !.listeners = OnError(@ \cup {Listener("drain", id),
                                                             Listener("error", id)}, id),
                               !.needDrain = FALSE]
                /\ UNCHANGED <<handle, proc, timerArmed, startP, finishP, calls, crashed>>
        [] OTHER ->
                /\ wf' = Append(wf, WfRec(Pending, FALSE, FALSE, 0))
                /\ stdin' = [stdin EXCEPT
                               !.listeners = @ \cup {Listener("drain", id),
                                                     Listener("error", id)}]
                /\ UNCHANGED <<handle, proc, timerArmed, startP, finishP, calls, crashed>>

\* finish(): without a process handle it resolves at once; otherwise it
\* registers a 'close' listener and ends stdin.
EncFinish ==
    /\ IF handle = "null"
       THEN /\ finishP' = [st |-> "resolved", err |-> "none", hadHandle |-> FALSE]
            /\ UNCHANGED <<proc, stdin>>
       ELSE /\ finishP' = [st |-> "pending", err |-> "none", hadHandle |-> TRUE]
            /\ proc' = [proc EXCEPT !.listeners = @ \cup {"finish.close"}]
            /\ stdin' = [stdin EXCEPT
                           !.state = IF @ = "open" THEN "ended" ELSE @]
    /\ calls' = [calls EXCEPT !.finish = @ + 1,
                              !.phase = IF @ = "Started" THEN "Finished" ELSE @]
    /\ UNCHANGED <<handle, timerArmed, startP, wf, crashed>>

\* kill(): with a handle, signal the process and drop the handle.
EncKill ==
    /\ IF handle # "null"
       THEN /\ proc' = [proc EXCEPT !.killed = (proc.state = "running")]
            /\ handle' = "null"
       ELSE UNCHANGED <<proc, handle>>
    /\ calls' = [calls EXCEPT !.kill = @ + 1,
                              !.phase = IF @ \in {"Started", "Finished"}
                                        THEN "Killed" ELSE @]
    /\ UNCHANGED <<stdin, timerArmed, startP, wf, finishP, crashed>>

\* No frame has been handed to the callback yet.
NoFrame == [progress |-> NaN, easedProgress |-> NaN, frameNumber |-> 0 - 1,
            time |-> NaN]

NewGen(pc) == [pc |-> pc, frameNumber |-> 0, drawn |-> 0, err |-> "none",
               frame |-> NoFrame]

(***************************************************************************)
(* generateAnimation: where the async function stands                      *)
(***************************************************************************)

LastWf == IF Len(wf) = 0 THEN NoPromise ELSE wf[Len(wf)]

CanResumeWithoutAwait(p) == TRUE

\* "await p" continues once p is settled.
CanResume(p) == p.st # "pending"

LoopContinuesInclusive(frameNumber, totalFrames) == frameNumber <= totalFrames

\* "frameNumber < totalFrames", the loop condition.
LoopContinues(frameNumber, totalFrames) == frameNumber < totalFrames

\* The function has synchronous code or a continuation to run: the event loop
\* dispatches no timer or I/O event before it has run.
GenRunnable ==
    /\ mode = "pipeline"
    /\ \/ gen.pc \in {"loop", "write", "catch", "throw"}
       \/ gen.pc = "await_start" /\ CanResume(startP)
       \/ gen.pc = "await_write" /\ CanResume(LastWf)
       \/ gen.pc = "await_finish" /\ CanResume(finishP)

MacroOk == ~crashed /\ ~GenRunnable

(***************************************************************************)
(* Events of the child process, its stdin and the timer                    *)
(***************************************************************************)

\* setTimeout(() => resolve(), 100).  A failed spawn raises its 'error' on the
\* next tick, before any timer.
TimerFires ==
    /\ MacroOk
    /\ timerArmed
    /\ ~(proc.state = "failed" /\ ~proc.errorEmitted)
    /\ timerArmed' = FALSE
    /\ startP' = Settle(startP, Resolved)
    /\ UNCHANGED <<mode, cfg, gen, handle, proc, stdin, wf, finishP, calls, crashed>>
    /\ UNCHANGED tlVars

\* The process emits 'error' (the spawn failed): start()'s listener rejects.
ProcError ==
    /\ MacroOk
    /\ proc.state = "failed"
    /\ ~proc.errorEmitted
    /\ proc' = [proc EXCEPT !.errorEmitted = TRUE]
    /\ stdin' = [stdin EXCEPT !.state = "destroyed", !.needDrain = FALSE]
    /\ startP' = IF "start.error" \in proc.listeners
                 THEN Settle(startP, Rejected(ErrSpawn)) ELSE startP
    /\ UNCHANGED <<mode, cfg, gen, handle, timerArmed, wf, finishP, calls, crashed>>
    /\ UNCHANGED tlVars

\* The codes a 'close' can carry: a signalled process closes with code null,
\* a failed spawn with a negative errno.
CloseCodes ==
    IF proc.state = "failed" THEN {"errno"}
    ELSE IF proc.killed THEN {"null"}
    ELSE ExitCodes

\* The process exits and emits 'close': Node destroys its stdin, then the
\* listeners run in registration order (start()'s, then finish()'s).
ProcClose ==
    /\ MacroOk
    /\ \/ proc.state = "running"
       \/ proc.state = "failed" /\ proc.errorEmitted
    /\ \E code \in CloseCodes :
        /\ proc' = [proc EXCEPT !.state = "exited", !.exitCode = code]
        /\ startP' = IF "start.close" \in proc.listeners
                     THEN Settle(startP, StartOnClose(code)) ELSE startP
        /\ IF "finish.close" \in proc.listeners
           THEN /\ finishP' = [finishP EXCEPT
                                 !.st = Settle(finishP, FinishOnClose(code)).st,
                                 !.err = Settle(finishP, FinishOnClose(code)).err]
                /\ handle' = "null"
           ELSE UNCHANGED <<finishP, handle>>
    /\ stdin' = [stdin EXCEPT !.state = "destroyed", !.needDrain = FALSE]
    /\ UNCHANGED <<mode, cfg, gen, timerArmed, wf, calls, crashed>>
    /\ UNCHANGED tlVars

ListenerIds(ev) == {l.id : l \in {x \in stdin.listeners : x.ev = ev}}

RECURSIVE DrainAll(_, _)
DrainAll(ls, ids) ==
    IF ids = {} THEN ls
    ELSE LET i == CHOOSE x \in ids : TRUE
         IN DrainAll(OnDrain(ls, i), ids \ {i})

RECURSIVE ErrorAll(_, _)
ErrorAll(ls, ids) ==
    IF ids = {} THEN ls
    ELSE LET i == CHOOSE x \in ids : TRUE
         IN ErrorAll(OnError(ls, i), ids \ {i})

\* stdin emits 'drain': every onDrain registered runs.  A listener that runs
\* after the handle was dropped dereferences null and throws.
StdinDrain ==
    /\ MacroOk
    /\ stdin.state = "open"
    /\ stdin.needDrain
    /\ LET ids == ListenerIds("drain") IN
       IF ids # {} /\ handle = "null"
       THEN /\ crashed' = TRUE
            /\ stdin' = [stdin EXCEPT !.needDrain = FALSE,
                            !.listeners = {l \in @ : l.ev # "drain"}]
            /\ UNCHANGED wf
       ELSE /\ stdin' = [stdin EXCEPT !.needDrain = FALSE,
                            !.listeners = DrainAll(@, ids)]
            /\ wf' = [i \in DOMAIN wf |->
                        IF i \in ids THEN WfSettle(wf[i], Resolved) ELSE wf[i]]
            /\ UNCHANGED crashed
    /\ UNCHANGED <<mode, cfg, gen, handle, proc, timerArmed, startP, finishP, calls>>
    /\ UNCHANGED tlVars

\* stdin emits 'error' (a write failed) and is destroyed.  With no 'error'
\* listener registered the event is thrown as an uncaught exception.
StdinError ==
    /\ MacroOk
    /\ stdin.state \in {"open", "ended"}
    /\ \E i \in DOMAIN wf : wf[i].bytes
    /\ LET ids == ListenerIds("error") IN
       IF ids = {} \/ handle = "null"
       THEN /\ crashed' = TRUE
            /\ stdin' = [stdin EXCEPT !.state = "destroyed", !.needDrain = FALSE,
                            !.errored = TRUE,
                            !.listeners = {l \in @ : l.ev # "error"}]
            /\ UNCHANGED wf
       ELSE /\ stdin' = [stdin EXCEPT !.state = "destroyed", !.needDrain = FALSE,
                            !.errored = TRUE,
                            !.listeners = ErrorAll(@, ids)]
            /\ wf' = [i \in DOMAIN wf |->
                        IF i \in ids THEN WfSettle(wf[i], Rejected(ErrStream))
                        ELSE wf[i]]
            /\ UNCHANGED crashed
    /\ UNCHANGED <<mode, cfg, gen, handle, proc, timerArmed, startP, finishP, calls>>
    /\ UNCHANGED tlVars

(***************************************************************************)
(* FrameGenerator.generateAnimation, one action per stretch of synchronous *)
(* code between two awaits                                                 *)
(***************************************************************************)

AwaitIgnoresRejection(p) == FALSE

\* "await p" throws into the catch block when p is rejected.
AwaitThrows(p) == p.st = "rejected"

\* generateAnimation is called: the encoder is built and start() is awaited.
GenCall ==
    /\ mode = "pipeline" /\ ~crashed
    /\ gen.pc = "idle"
    /\ EncStart
    /\ gen' = [gen EXCEPT !.pc = "await_start"]
    /\ UNCHANGED <<mode, cfg>>
    /\ UNCHANGED tlVars

GenAfterStart ==
    /\ mode = "pipeline" /\ ~crashed
    /\ gen.pc = "await_start"
    /\ CanResume(startP)
    /\ gen' = IF AwaitThrows(startP)
              THEN [gen EXCEPT !.pc = "catch", !.err = startP.err]
              ELSE [gen EXCEPT !.pc = "loop", !.frameNumber = 0]
    /\ UNCHANGED <<mode, cfg>>
    /\ UNCHANGED encVars
    /\ UNCHANGED tlVars

\* this.easingFunction(progress) for the function the generator was given
easingFunction(easing, t) ==
    CASE easing = "linear" -> linear(t)
      [] easing = "easeInOut" -> easeInOutCubic(t)
      [] easing = "easeIn" -> easeInCubic(t)
      [] easing = "easeOut" -> easeOutCubic(t)

FrameTimeFromEased(progress, easedProgress, duration) ==
    RMul(easedProgress, RInt(duration))

\* "time = progress * this.config.duration"
FrameTime(progress, easedProgress, duration) == RMul(progress, RInt(duration))

\* The frame object of one loop iteration; a division by 0 gives NaN (0/0).
AnimationFrame(frameNumber, totalFrames, config) ==
    LET progress == Rat(frameNumber, totalFrames - 1)
        easedProgress == easingFunction(config.easing, progress)
    IN [progress |-> progress,
        easedProgress |-> easedProgress,
        frameNumber |-> frameNumber,
        time |-> FrameTime(progress, easedProgress, config.duration)]

\* One loop iteration up to the conversion: clearCanvas, then the callback,
\* which may throw.
GenDraw ==
    /\ mode = "pipeline" /\ ~crashed
    /\ gen.pc = "loop"
    /\ LoopContinues(gen.frameNumber, TotalFrames)
    /\ \E throws \in BOOLEAN :
         LET frame == AnimationFrame(gen.frameNumber, TotalFrames, cfg) IN
         gen' = IF throws
                THEN [gen EXCEPT !.pc = "catch", !.err = ErrDraw, !.drawn = @ + 1,
                                 !.frame = frame]
                ELSE [gen EXCEPT !.pc = "write", !.drawn = @ + 1, !.frame = frame]
    /\ UNCHANGED <<mode, cfg>>
    /\ UNCHANGED encVars
    /\ UNCHANGED tlVars

\* getImageData, convertImageDataToRGB and the call of writeFrame.
GenWrite ==
    /\ mode = "pipeline" /\ ~crashed
    /\ gen.pc = "write"
    /\ EncWriteFrame
    /\ gen' = [gen EXCEPT !.pc = "await_write"]
    /\ UNCHANGED <<mode, cfg>>
    /\ UNCHANGED tlVars

GenAfterWrite ==
    /\ mode = "pipeline" /\ ~crashed
    /\ gen.pc = "await_write"
    /\ CanResume(LastWf)
    /\ gen' = IF AwaitThrows(LastWf)
              THEN [gen EXCEPT !.pc = "catch", !.err = LastWf.err]
              ELSE [gen EXCEPT !.pc = "loop", !.frameNumber = @ + 1]
    /\ UNCHANGED <<mode, cfg>>
    /\ UNCHANGED encVars
    /\ UNCHANGED tlVars

\* The loop is over: finish() is called and awaited.
GenCallFinish ==
    /\ mode = "pipeline" /\ ~crashed
    /\ gen.pc = "loop"
    /\ ~LoopContinues(gen.frameNumber, TotalFrames)
    /\ EncFinish
    /\ gen' = [gen EXCEPT !.pc = "await_finish"]
    /\ UNCHANGED <<mode, cfg>>
    /\ UNCHANGED tlVars

\* "return outputPath" or into the catch block.
GenAfterFinish ==
    /\ mode = "pipeline" /\ ~crashed
    /\ gen.pc = "await_finish"
    /\ CanResume(finishP)
    /\ gen' = IF AwaitThrows(finishP)
              THEN [gen EXCEPT !.pc = "catch", !.err = finishP.err]
              ELSE [gen EXCEPT !.pc = "resolved"]
    /\ UNCHANGED <<mode, cfg>>
    /\ UNCHANGED encVars
    /\ UNCHANGED tlVars

\* catch (error) { encoder.kill(); ...
GenKill ==
    /\ mode = "pipeline" /\ ~crashed
    /\ gen.pc = "catch"
    /\ EncKill
    /\ gen' = [gen EXCEPT !.pc = "throw"]
    /\ UNCHANGED <<mode, cfg>>
    /\ UNCHANGED tlVars

\* ... throw error; }
GenThrow ==
    /\ mode = "pipeline" /\ ~crashed
    /\ gen.pc = "throw"
    /\ gen' = [gen EXCEPT !.pc = "rejected"]
    /\ UNCHANGED <<mode, cfg>>
    /\ UNCHANGED encVars
    /\ UNCHANGED tlVars

(***************************************************************************)
(* A caller that uses the encoder's methods directly, one writer at a time *)
(***************************************************************************)
MaxApiFinishes == 2
MaxApiKills == 1

ApiStart ==
    /\ mode = "api" /\ ~crashed
    /\ calls.start = 0
    /\ EncStart
    /\ UNCHANGED <<mode, cfg, gen>>
    /\ UNCHANGED tlVars

ApiWriteFrame ==
    /\ mode = "api" /\ ~crashed
    /\ Len(wf) < MaxApiWrites
    /\ LastWf.st # "pending"
    /\ EncWriteFrame
    /\ UNCHANGED <<mode, cfg, gen>>
    /\ UNCHANGED tlVars

ApiFinish ==
    /\ mode = "api" /\ ~crashed
    /\ calls.finish < MaxApiFinishes
    /\ finishP.st # "pending"
    /\ EncFinish
    /\ UNCHANGED <<mode, cfg, gen>>
    /\ UNCHANGED tlVars

ApiKill ==
    /\ mode = "api" /\ ~crashed
    /\ calls.kill < MaxApiKills
    /\ EncKill
    /\ UNCHANGED <<mode, cfg, gen>>
    /\ UNCHANGED tlVars

(***************************************************************************)
(* Initial states and specifications of the encoder                        *)
(***************************************************************************)
NoScene == [duration |-> 0, objects |-> <<>>, animations |-> <<>>]
NoEval == [obj |-> 0, time |-> 0]
NoState == [none |-> TRUE]
NoSg == [pc |-> "off", errors |-> <<>>, err |-> "none", latexRuns |-> 0]
NoImg == [width |-> 0, height |-> 0, data |-> <<>>, rgb |-> <<>>, converted |-> FALSE]
NoSvg ==
    [path |-> <<>>, ops |-> <<>>, steps |-> <<>>, rendered |-> FALSE,
     transform |-> <<>>, applied |-> FALSE,
     text |-> <<>>, centerOffset |-> <<0, 1>>, draws |-> <<>>, typeset |-> FALSE]

InitEnc ==
    /\ handle = "null"
    /\ proc = [state |-> "none", exitCode |-> "none", listeners |-> {},
               killed |-> FALSE, errorEmitted |-> FALSE]
    /\ stdin = [state |-> "none", listeners |-> {}, needDrain |-> FALSE,
                errored |-> FALSE]
    /\ timerArmed = FALSE
    /\ startP = NoPromise
    /\ wf = <<>>
    /\ finishP = [st |-> "none", err |-> "none", hadHandle |-> FALSE]
    /\ calls = [start |-> 0, finish |-> 0, kill |-> 0, phase |-> "Created"]
    /\ crashed = FALSE

InitNoTimeline ==
    /\ scene = NoScene
    /\ evalAt = NoEval
    /\ objState = NoState
    /\ sg = NoSg
    /\ img = NoImg
    /\ svg = NoSvg

Init ==
    /\ mode = "pipeline"
    /\ cfg \in [fps : 1..MaxFps, duration : 1..MaxDuration, easing : Easings]
    /\ gen = NewGen("idle")
    /\ InitEnc
    /\ InitNoTimeline

Next ==
    \/ GenCall
    \/ GenAfterStart
    \/ GenDraw
    \/ GenWrite
    \/ GenAfterWrite
    \/ GenCallFinish
    \/ GenAfterFinish
    \/ GenKill
    \/ GenThrow
    \/ TimerFires
    \/ ProcError
    \/ ProcClose
    \/ StdinDrain
    \/ StdinError

Spec == Init /\ [][Next]_vars

InitApi ==
    /\ mode = "api"
    /\ cfg = [fps |-> 1, duration |-> 1, easing |-> "linear"]
    /\ gen = NewGen("off")
    /\ InitEnc
    /\ InitNoTimeline

NextApi ==
    \/ ApiStart
    \/ ApiWriteFrame
    \/ ApiFinish
    \/ ApiKill
    \/ TimerFires
    \/ ProcError
    \/ ProcClose
    \/ StdinDrain
    \/ StdinError

SpecApi == InitApi /\ [][NextApi]_vars

\* The direct caller with the events that are bound to happen: a running or
\* failed process eventually exits, a pending 'error', timer or 'drain' is
\* eventually delivered.  The caller's own calls are not forced.
SpecApiLive ==
    /\ InitApi
    /\ [][NextApi]_vars
    /\ WF_vars(ProcClose)
    /\ WF_vars(ProcError)
    /\ WF_vars(TimerFires)
    /\ WF_vars(StdinDrain)

(***************************************************************************)
(* scene/timeline.ts                                                       *)
(***************************************************************************)
getEasingFunction(easing, t) ==
    CASE easing = "linear" -> linear(t)
      [] easing = "easeInOut" -> easeInOutCubic(t)
      [] easing = "easeIn" -> easeInCubic(t)
      [] easing = "easeOut" -> easeOutCubic(t)
      [] OTHER -> linear(t)

\* The regular expression accepts exactly the 6-digit hex colours.
hexToRgb(hex) == IF hex.c[1] = "hex" THEN <<hex.c[2], hex.c[3], hex.c[4]>> ELSE <<>>

lerpColor(startColor, endColor, t) ==
    LET start == hexToRgb(startColor)
        end == hexToRgb(endColor)
    IN IF start = <<>> \/ end = <<>> THEN startColor
       ELSE Str(<<"rgb",
                  RRound(lerpR(RInt(start[1]), RInt(end[1]), t)),
                  RRound(lerpR(RInt(start[2]), RInt(end[2]), t)),
                  RRound(lerpR(RInt(start[3]), RInt(end[3]), t))>>)

\* "rotateProps.rotations ? ... : ...": an absent or zero rotations is falsy.
HasRotations(props) == props.rotations # <<>> /\ props.rotations[1] # Zero

\* from + k * rotations * Math.PI * 2
RotationAt(props, k) ==
    NumPi(props.from.x, RAdd(props.from.y, RMul(k, RMul(props.rotations[1], RInt(2)))))

getAnimationEndValue(animation) ==
    LET props == animation.properties IN
    CASE animation.type = "move" -> props.to
      [] animation.type = "rotate" ->
            IF HasRotations(props) THEN RotationAt(props, One) ELSE props.to
      [] animation.type = "scale" -> props.to
      [] animation.type = "fade" -> props.to
      [] animation.type = "color" -> props.to
      [] OTHER -> Null

interpolateAnimation(animation, progress) ==
    LET props == animation.properties IN
    CASE animation.type = "move" -> lerpPoint(props.from, props.to, progress)
      [] animation.type = "rotate" ->
            IF HasRotations(props) THEN RotationAt(props, progress)
            ELSE lerp(props.from, props.to, progress)
      [] animation.type = "scale" ->
            IF props.from.k = "num" /\ props.to.k = "num"
            THEN LET scaleValue == lerp(props.from, props.to, progress)
                 IN Pt(scaleValue.x, scaleValue.x)
            ELSE lerpPoint(props.from, props.to, progress)
      [] animation.type = "fade" -> lerp(props.from, props.to, progress)
      [] animation.type = "color" -> lerpColor(props.from, props.to, progress)
      [] OTHER -> Null

NotStartedNever(time, startTime) == FALSE

\* "time < animation.startTime"
NotStarted(time, startTime) == RLt(time, startTime)

HasFinishedStrictly(time, animationEndTime) == RLt(animationEndTime, time)

\* "time >= animationEndTime"
HasFinished(time, animationEndTime) == RGe(time, animationEndTime)

evaluateAnimation(animation, time) ==
    LET animationEndTime == RAdd(animation.startTime, animation.duration) IN
    IF NotStarted(time, animation.startTime) THEN Null
    ELSE IF HasFinished(time, animationEndTime) THEN getAnimationEndValue(animation)
    ELSE LET localTime == RSub(time, animation.startTime)
             progress == RDiv(localTime, animation.duration)
             easedProgress == getEasingFunction(animation.easing, progress)
         IN interpolateAnimation(animation, easedProgress)

\* "x ?? d" on an optional field, <<>> when absent and <<x>> when present
OrElse(opt, d) == IF opt = <<>> THEN d ELSE opt[1]

InitialState(object) ==
    [position |-> object.initialPosition,
     rotation |-> OrElse(object.initialRotation, Num(Zero)),
     scale |-> OrElse(object.initialScale, Pt(One, One)),
     opacity |-> OrElse(object.initialOpacity, Num(One)),
     colors |-> [fill |-> object.properties.color,
                 stroke |-> object.properties.strokeColor]]

applyTrackAdditiveMove(state, animation, value) ==
    CASE animation.type = "move" ->
            [state EXCEPT !.position = Pt(RAdd(FieldX(@), FieldX(value)),
                                          RAdd(FieldY(@), FieldY(value)))]
      [] animation.type = "rotate" -> [state EXCEPT !.rotation = value]
      [] animation.type = "scale" -> [state EXCEPT !.scale = value]
      [] animation.type = "fade" -> [state EXCEPT !.opacity = value]
      [] animation.type = "color" ->
            IF animation.properties.property = "fill"
            THEN [state EXCEPT !.colors.fill = value]
            ELSE [state EXCEPT !.colors.stroke = value]
      [] OTHER -> state

\* The switch of getObjectStateAtTime: the value overwrites the field.
applyTrack(state, animation, value) ==
    CASE animation.type = "move" -> [state EXCEPT !.position = value]
      [] animation.type = "rotate" -> [state EXCEPT !.rotation = value]
      [] animation.type = "scale" -> [state EXCEPT !.scale = value]
      [] animation.type = "fade" -> [state EXCEPT !.opacity = value]
      [] animation.type = "color" ->
            IF animation.properties.property = "fill"
            THEN [state EXCEPT !.colors.fill = value]
            ELSE [state EXCEPT !.colors.stroke = value]
      [] OTHER -> state

\* The for-loop over objectAnimations, from index i on.
RECURSIVE applyAnimations(_, _, _, _)
applyAnimations(state, objectAnimations, i, time) ==
    IF i > Len(objectAnimations) THEN state
    ELSE LET animation == objectAnimations[i]
             value == evaluateAnimation(animation, time)
         IN applyAnimations(IF value = Null THEN state
                            ELSE applyTrack(state, animation, value),
                            objectAnimations, i + 1, time)

getObjectStateAtTime(object, animations, time) ==
    LET HasId(anim) == anim.objectId = object.id
        objectAnimations == SelectSeq(animations, HasId)
    IN applyAnimations(InitialState(object), objectAnimations, 1, time)

(***************************************************************************)
(* Scenes the evaluator is run on.  Object "a" sets every optional field,  *)
(* object "b" leaves them out.  A track is one of TrackProps placed at one *)
(* of TrackTimings; one more track of "a" starts before time 0, and the   *)
(* tracks of "b" give the filter by objectId something to filter.          *)
(***************************************************************************)
MaxTracks == 2
MaxTick == 6
TicksPerSecond == 2

ObjA ==
    [id |-> "a",
     properties |-> [color |-> Hex(255, 0, 0), strokeColor |-> Hex(255, 255, 255)],
     initialPosition |-> Pt(RInt(100), RInt(50)),
     initialRotation |-> <<Num(Rat(1, 2))>>,
     initialScale |-> <<Pt(RInt(2), RInt(2))>>,
     initialOpacity |-> <<Num(Zero)>>]

ObjB ==
    [id |-> "b",
     properties |-> [color |-> Hex(0, 0, 255), strokeColor |-> Undefined],
     initialPosition |-> Pt(Zero, Zero),
     initialRotation |-> <<>>,
     initialScale |-> <<>>,
     initialOpacity |-> <<>>]

Props(from, to, rotations, property) ==
    [from |-> from, to |-> to, rotations |-> rotations, property |-> property]

Track(objectId, type, timing, easing, props) ==
    [objectId |-> objectId, type |-> type,
     startTime |-> RInt(timing[1]), duration |-> RInt(timing[2]),
     easing |-> easing, properties |-> props]

TrackProps ==
    { <<"move", "linear",
        Props(Pt(RInt(100), RInt(50)), Pt(RInt(700), RInt(350)), <<>>, "")>>,
      <<"move", "easeInOut",
        Props(Pt(RInt(30), Zero), Pt(Zero, RInt(30)), <<>>, "")>>,
      <<"rotate", "easeIn",
        Props(Num(Rat(1, 2)), Num(RInt(3)), <<>>, "")>>,
      <<"rotate", "linear",
        Props(Num(Zero), Num(Zero), <<RInt(2)>>, "")>>,
      <<"scale", "easeInOut",
        Props(Num(One), Num(RInt(3)), <<>>, "")>>,
      <<"scale", "linear",
        Props(Pt(RInt(2), RInt(2)), Pt(RInt(1), RInt(4)), <<>>, "")>>,
      <<"fade", "easeOut",
        Props(Num(Zero), Num(One), <<>>, "")>>,
      <<"fade", "easeIn",
        Props(Num(One), Num(Zero), <<>>, "")>>,
      <<"color", "linear",
        Props(Hex(255, 0, 0), Hex(0, 0, 255), <<>>, "fill")>>,
      <<"color", "easeInOut",
        Props(Hex(0, 0, 0), Hex(255, 255, 255), <<>>, "stroke")>> }

\* <<startTime, duration>> in seconds
TrackTimings == { <<0, 2>>, <<1, 2>>, <<1, 0>> }

TrackSet ==
    { Track("a", p[1], tm, p[2], p[3]) : p \in TrackProps, tm \in TrackTimings }
    \cup { Track("a", "move", <<0 - 1, 2>>, "easeOut",
                 Props(Pt(Zero, Zero), Pt(RInt(8), RInt(16)), <<>>, "")),
           Track("b", "move", <<0, 2>>, "linear",
                 Props(Pt(Zero, Zero), Pt(RInt(100), RInt(100)), <<>>, "")),
           Track("b", "fade", <<1, 2>>, "linear",
                 Props(Num(One), Num(Zero), <<>>, "")) }

\* The scene of both objects with the given tracks
SceneWith(animations) ==
    [duration |-> 3, objects |-> <<ObjA, ObjB>>, animations |-> animations]

(***************************************************************************)
(* Scenes with one track, drawn from a wider range of payloads than        *)
(* TrackSet has room for.                                                  *)
(***************************************************************************)
SingleTrackTimings == { <<0, 1>>, <<0, 2>>, <<1, 2>>, <<1, 0>> }

\* rotations absent, 0, 2 and -3/2
RotationsPayloads == { <<>>, <<Zero>>, <<RInt(2)>>, <<Rat(0 - 3, 2)>> }

RotateTracks ==
    { Track("a", "rotate", tm, e, Props(Num(from), Num(to), rot, "")) :
        tm \in SingleTrackTimings, e \in Easings,
        from \in {Zero, Half}, to \in {Zero, RInt(3)}, rot \in RotationsPayloads }

SingleTracks == RotateTracks

SingleTrackScenes == { SceneWith(<<track>>) : track \in SingleTracks }

TimeOf(tick) == Rat(tick, TicksPerSecond)

\* One call getObjectStateAtTime(scene.objects[o], scene.animations, time);
\* the function is pure, so a behaviour is one call on one input.
Evaluate ==
    /\ mode = "timeline"
    /\ evalAt = NoEval
    /\ \E o \in DOMAIN scene.objects, tick \in 0..MaxTick :
          /\ evalAt' = [obj |-> o, time |-> tick]
          /\ objState' = getObjectStateAtTime(scene.objects[o], scene.animations,
                                              TimeOf(tick))
    /\ UNCHANGED <<mode, cfg, gen, scene, sg, img, svg>>
    /\ UNCHANGED encVars

InitTimeline ==
    /\ mode = "timeline"
    /\ cfg = [fps |-> 1, duration |-> 1, easing |-> "linear"]
    /\ gen = NewGen("off")
    /\ InitEnc
    /\ \E n \in 0..MaxTracks :
          \E animations \in [1..n -> TrackSet] : scene = SceneWith(animations)
    /\ evalAt = NoEval
    /\ objState = NoState
    /\ sg = NoSg
    /\ img = NoImg
    /\ svg = NoSvg

NextTimeline == Evaluate

SpecTimeline == InitTimeline /\ [][NextTimeline]_vars

InitSingleTrack ==
    /\ mode = "timeline"
    /\ cfg = [fps |-> 1, duration |-> 1, easing |-> "linear"]
    /\ gen = NewGen("off")
    /\ InitEnc
    /\ scene \in SingleTrackScenes
    /\ evalAt = NoEval
    /\ objState = NoState
    /\ sg = NoSg
    /\ img = NoImg
    /\ svg = NoSvg

SpecSingleTrack == InitSingleTrack /\ [][NextTimeline]_vars

(***************************************************************************)
(* scene/scene.ts: validateScene.  An error message is <<text, objectId>>, *)
(* the template literal with the id it interpolates ("" when it has none). *)
(***************************************************************************)
ErrorMessage(text, objectId) == <<text, objectId>>

IsUnknownObjectNever(objectIds, animation) == FALSE

\* "!objectIds.has(animation.objectId)"
IsUnknownObject(objectIds, animation) == animation.objectId \notin objectIds

\* "animation.startTime + animation.duration > scene.duration"
ExtendsBeyond(animation, sceneDuration) ==
    RLt(RInt(sceneDuration), RAdd(animation.startTime, animation.duration))

animationErrorsFirstOnly(objectIds, animation, sceneDuration) ==
    IF IsUnknownObject(objectIds, animation)
    THEN <<ErrorMessage("Animation references unknown object", animation.objectId)>>
    ELSE IF RLt(animation.startTime, Zero)
    THEN <<ErrorMessage("Animation start time cannot be negative", animation.objectId)>>
    ELSE IF ExtendsBeyond(animation, sceneDuration)
    THEN <<ErrorMessage("Animation extends beyond scene duration", animation.objectId)>>
    ELSE <<>>

\* The three checks of the loop body on one track, in their order.
animationErrors(objectIds, animation, sceneDuration) ==
    (IF IsUnknownObject(objectIds, animation)
     THEN <<ErrorMessage("Animation references unknown object", animation.objectId)>>
     ELSE <<>>)
    \o (IF RLt(animation.startTime, Zero)
        THEN <<ErrorMessage("Animation start time cannot be negative", animation.objectId)>>
        ELSE <<>>)
    \o (IF ExtendsBeyond(animation, sceneDuration)
        THEN <<ErrorMessage("Animation extends beyond scene duration", animation.objectId)>>
        ELSE <<>>)

RECURSIVE validateAnimations(_, _, _, _)
validateAnimations(objectIds, animations, i, sceneDuration) ==
    IF i > Len(animations) THEN <<>>
    ELSE animationErrors(objectIds, animations[i], sceneDuration)
         \o validateAnimations(objectIds, animations, i + 1, sceneDuration)

validateScene(s) ==
    LET objectIds == { s.objects[i].id : i \in DOMAIN s.objects } IN
    (IF s.duration <= 0
     THEN <<ErrorMessage("Scene duration must be positive", "")>> ELSE <<>>)
    \o (IF Len(s.objects) = 0
        THEN <<ErrorMessage("Scene must contain at least one object", "")>> ELSE <<>>)
    \o validateAnimations(objectIds, s.animations, 1, s.duration)

(***************************************************************************)
(* Scenes validateScene is run on: any duration around 0, no, one or two   *)
(* objects, tracks of declared and undeclared objects at any placement.    *)
(***************************************************************************)
MaxValidatedTracks == 2

ValidatedDurations == {0, 1, 2}

ValidatedTracks ==
    { Track(id, "move", <<start, duration>>, "linear",
            Props(Pt(Zero, Zero), Pt(RInt(100), RInt(100)), <<>>, "")) :
        id \in {"a", "b", "ghost"}, start \in {0 - 1, 0}, duration \in {1, 2} }

ValidatedScenes ==
    { [duration |-> dur, objects |-> objs, animations |-> anims] :
        dur \in ValidatedDurations,
        objs \in { <<>>, <<ObjA>>, <<ObjA, ObjB>> },
        anims \in UNION { [1..n -> ValidatedTracks] : n \in 0..MaxValidatedTracks } }

\* One call validateScene(scene).
Validate ==
    /\ mode = "validate"
    /\ sg.pc = "idle"
    /\ sg' = [sg EXCEPT !.pc = "validated", !.errors = validateScene(scene)]
    /\ UNCHANGED <<mode, cfg, gen, scene, evalAt, objState, img, svg>>
    /\ UNCHANGED encVars

InitValidate ==
    /\ mode = "validate"
    /\ cfg = [fps |-> 1, duration |-> 1, easing |-> "linear"]
    /\ gen = NewGen("off")
    /\ InitEnc
    /\ scene \in ValidatedScenes
    /\ evalAt = NoEval
    /\ objState = NoState
    /\ sg = [NoSg EXCEPT !.pc = "idle"]
    /\ img = NoImg
    /\ svg = NoSvg

NextValidate == Validate

SpecValidate == InitValidate /\ [][NextValidate]_vars

(***************************************************************************)
(* scene-generator.ts: generateSceneAnimation(scene, config).  It runs     *)
(* with mode "pipeline": from SceneGenerate on the frame loop and the      *)
(* encoder above do the rendering.                                         *)
(***************************************************************************)
ErrValidation(errors) == <<"Scene validation failed", errors>>

ValidationFailsNever(errors) == FALSE

\* "errors.length > 0"
ValidationFails(errors) == Len(errors) > 0

\* "scene.latex?.equation"
HasEquation(s) == s.latex # <<>> /\ s.latex[1].equation # ""

\* const errors = validateScene(scene); if (errors.length > 0) throw ...
SceneValidate ==
    /\ mode = "pipeline" /\ ~crashed
    /\ sg.pc = "idle"
    /\ LET errors == validateScene(scene) IN
          sg' = IF ValidationFails(errors)
                THEN [sg EXCEPT !.pc = "rejected", !.errors = errors,
                                !.err = ErrValidation(errors)]
                ELSE [sg EXCEPT !.pc = "latex", !.errors = errors]
    /\ UNCHANGED <<mode, cfg, gen, scene, evalAt, objState, img, svg>>
    /\ UNCHANGED encVars

\* The markup stage: latexToSvg and parseSVGContent run when the scene has an
\* equation; a failure is caught and logged, the render goes on without it.
SceneLatex ==
    /\ mode = "pipeline" /\ ~crashed
    /\ sg.pc = "latex"
    /\ \E compiled \in BOOLEAN :
          sg' = [sg EXCEPT !.pc = "generate",
                           !.latexRuns = IF HasEquation(scene) THEN @ + 1 ELSE @]
    /\ UNCHANGED <<mode, cfg, gen, scene, evalAt, objState, img, svg>>
    /\ UNCHANGED encVars

\* new FrameGenerator({fps: config.fps, duration: scene.duration, ...}, linear)
\* and the call of generateAnimation.
SceneGenerate ==
    /\ mode = "pipeline" /\ ~crashed
    /\ sg.pc = "generate"
    /\ cfg' = [cfg EXCEPT !.duration = scene.duration, !.easing = "linear"]
    /\ gen' = [gen EXCEPT !.pc = "idle"]
    /\ sg' = [sg EXCEPT !.pc = "await_generate"]
    /\ UNCHANGED <<mode, scene, evalAt, objState, img, svg>>
    /\ UNCHANGED encVars

\* await frameGenerator.generateAnimation(...); return `/animations/...`
SceneAfterGenerate ==
    /\ mode = "pipeline" /\ ~crashed
    /\ sg.pc = "await_generate"
    /\ gen.pc \in {"resolved", "rejected"}
    /\ sg' = IF gen.pc = "rejected"
             THEN [sg EXCEPT !.pc = "rejected", !.err = gen.err]
             ELSE [sg EXCEPT !.pc = "resolved"]
    /\ UNCHANGED <<mode, cfg, gen, scene, evalAt, objState, img, svg>>
    /\ UNCHANGED encVars

\* Scenes handed to generateSceneAnimation: well-formed ones and ones with
\* each kind of validation finding, with and without an equation.
RenderedTracks ==
    { Track(id, "move", <<start, duration>>, "linear",
            Props(Pt(Zero, Zero), Pt(RInt(100), RInt(100)), <<>>, "")) :
        id \in {"a", "ghost"}, start \in {0 - 1, 0}, duration \in {1, 2} }

RenderedScenes ==
    { [duration |-> dur, objects |-> objs, animations |-> anims, latex |-> latex] :
        dur \in {0, 1, 2},
        objs \in { <<>>, <<ObjA>> },
        anims \in { <<>> } \cup { <<track>> : track \in RenderedTracks },
        latex \in { <<>>, <<[equation |-> "E = mc^2"]>> } }

InitScene ==
    /\ mode = "pipeline"
    /\ cfg \in [fps : 1..MaxFps, duration : {0}, easing : {"linear"}]
    /\ gen = NewGen("off")
    /\ InitEnc
    /\ scene \in RenderedScenes
    /\ evalAt = NoEval
    /\ objState = NoState
    /\ sg = [NoSg EXCEPT !.pc = "idle"]
    /\ img = NoImg
    /\ svg = NoSvg

NextScene ==
    \/ SceneValidate
    \/ SceneLatex
    \/ SceneGenerate
    \/ SceneAfterGenerate
    \/ Next

SpecScene == InitScene /\ [][NextScene]_vars

(***************************************************************************)
(* video-encoder.ts: convertImageDataToRGB.  imageData.data and the        *)
(* result are byte sequences; index k of the code is position k + 1 here.  *)
(***************************************************************************)
\* data[k]; a read past the end is undefined, which a Uint8Array stores as 0
ByteAt(data, k) == IF k + 1 \in DOMAIN data THEN data[k + 1] ELSE 0

RgbaIndexWithoutAlpha(i) == i * 3

\* "const rgbaIndex = i * 4"
RgbaIndex(i) == i * 4

\* The for-loop from pixel i on; every iteration stores three bytes.
RECURSIVE convertPixels(_, _, _)
convertPixels(data, i, pixelCount) ==
    IF i >= pixelCount THEN <<>>
    ELSE <<ByteAt(data, RgbaIndex(i)),
           ByteAt(data, RgbaIndex(i) + 1),
           ByteAt(data, RgbaIndex(i) + 2)>>
         \o convertPixels(data, i + 1, pixelCount)

convertImageDataToRGB(imageData, width, height) ==
    convertPixels(imageData.data, 0, width * height)

\* Canvas contents: every pixel is one of a few RGBA quadruples.
MaxWidth == 3
MaxHeight == 1

PixelValues ==
    { <<255, 0, 0, 255>>, <<0, 255, 0, 128>>, <<1, 2, 3, 4>>, <<0, 0, 0, 0>> }

RECURSIVE Flatten(_)
Flatten(pixels) ==
    IF pixels = <<>> THEN <<>> ELSE Head(pixels) \o Flatten(Tail(pixels))

\* getImageData(0, 0, width, height) of a canvas with these pixels
getImageData(width, height, pixels) ==
    [width |-> width, height |-> height, data |-> Flatten(pixels)]

\* One call convertImageDataToRGB(imageData, width, height) as in the frame
\* loop, with the width and height the image data was read with.
Convert ==
    /\ mode = "convert"
    /\ ~img.converted
    /\ img' = [img EXCEPT !.converted = TRUE,
                          !.rgb = convertImageDataToRGB(img, img.width, img.height)]
    /\ UNCHANGED <<mode, cfg, gen, scene, evalAt, objState, sg, svg>>
    /\ UNCHANGED encVars

InitConvert ==
    /\ mode = "convert"
    /\ cfg = [fps |-> 1, duration |-> 1, easing |-> "linear"]
    /\ gen = NewGen("off")
    /\ InitEnc
    /\ scene = NoScene
    /\ evalAt = NoEval
    /\ objState = NoState
    /\ sg = NoSg
    /\ svg = NoSvg
    /\ \E w \in 1..MaxWidth, h \in 1..MaxHeight :
          \E pixels \in [1..(w * h) -> PixelValues] :
              LET imageData == getImageData(w, h, pixels) IN
              img = [width |-> w, height |-> h, data |-> imageData.data,
                     rgb |-> <<>>, converted |-> FALSE]

NextConvert == Convert

SpecConvert == InitConvert /\ [][NextConvert]_vars

(***************************************************************************)
(* latex-renderer.ts: renderSVGPath.  pathData is given as the list the    *)
(* code splits it into: one entry per command letter with the numbers that *)
(* follow it, [type, coords]; the empty list is the empty string.  A       *)
(* drawing operation is [op, args].                                        *)
(***************************************************************************)
NullCoords == <<>>

getCoordsPadded(coords, startIndex, count) ==
    [k \in 1..count |->
        IF startIndex + k \in DOMAIN coords THEN coords[startIndex + k] ELSE 0]

\* null when there are too few numbers, else the slice
getCoords(coords, startIndex, count) ==
    IF Len(coords) < startIndex + count THEN NullCoords
    ELSE SubSeq(coords, startIndex + 1, startIndex + count)

LowerCase == {"m", "l", "h", "v", "c", "s", "q", "t", "a", "z"}

\* type === type.toLowerCase()
IsRelative(type) == type \in LowerCase

toUpperCase(type) ==
    CASE type = "m" -> "M" [] type = "l" -> "L" [] type = "h" -> "H"
      [] type = "v" -> "V" [] type = "c" -> "C" [] type = "s" -> "S"
      [] type = "q" -> "Q" [] type = "t" -> "T" [] type = "a" -> "A"
      [] type = "z" -> "Z" [] OTHER -> type

\* "isRelative ? current + c : c"
Coord(isRelative, current, c) == IF isRelative THEN current + c ELSE c

Op(name, args) == [op |-> name, args |-> args]

PenStart ==
    [currentX |-> 0, currentY |-> 0, startX |-> 0, startY |-> 0,
     lastControlX |-> 0, lastControlY |-> 0]

CursorKept(pen) == pen

\* "currentX = startX; currentY = startY"
CursorToStart(pen) ==
    [pen EXCEPT !.currentX = pen.startX, !.currentY = pen.startY]

\* One iteration of the loop: the operations it emits and the variables after.
Interpret(pen, command) ==
    LET rel == IsRelative(command.type)
        type == toUpperCase(command.type)
        coords == command.coords
        Same == [ops |-> <<>>, pen |-> pen]
    IN
    CASE type \in {"M", "L"} ->
            LET c == getCoords(coords, 0, 2) IN
            IF c = NullCoords THEN Same
            ELSE LET x == Coord(rel, pen.currentX, c[1])
                     y == Coord(rel, pen.currentY, c[2])
                 IN IF type = "M"
                    THEN [ops |-> <<Op("moveTo", <<x, y>>)>>,
                          pen |-> [pen EXCEPT !.currentX = x, !.currentY = y,
                                              !.startX = x, !.startY = y]]
                    ELSE [ops |-> <<Op("lineTo", <<x, y>>)>>,
                          pen |-> [pen EXCEPT !.currentX = x, !.currentY = y]]
      [] type = "H" ->
            LET c == getCoords(coords, 0, 1) IN
            IF c = NullCoords THEN Same
            ELSE LET x == Coord(rel, pen.currentX, c[1])
                 IN [ops |-> <<Op("lineTo", <<x, pen.currentY>>)>>,
                     pen |-> [pen EXCEPT !.currentX = x]]
      [] type = "V" ->
            LET c == getCoords(coords, 0, 1) IN
            IF c = NullCoords THEN Same
            ELSE LET y == Coord(rel, pen.currentY, c[1])
                 IN [ops |-> <<Op("lineTo", <<pen.currentX, y>>)>>,
                     pen |-> [pen EXCEPT !.currentY = y]]
      [] type = "C" ->
            LET c == getCoords(coords, 0, 6) IN
            IF c = NullCoords THEN Same
            ELSE LET cp1x == Coord(rel, pen.currentX, c[1])
                     cp1y == Coord(rel, pen.currentY, c[2])
                     cp2x == Coord(rel, pen.currentX, c[3])
                     cp2y == Coord(rel, pen.currentY, c[4])
                     x == Coord(rel, pen.currentX, c[5])
                     y == Coord(rel, pen.currentY, c[6])
                 IN [ops |-> <<Op("bezierCurveTo", <<cp1x, cp1y, cp2x, cp2y, x, y>>)>>,
                     pen |-> [pen EXCEPT !.currentX = x, !.currentY = y,
                                         !.lastControlX = cp2x, !.lastControlY = cp2y]]
      [] type = "S" ->
            LET c == getCoords(coords, 0, 4) IN
            IF c = NullCoords THEN Same
            ELSE LET scp1x == 2 * pen.currentX - pen.lastControlX
                     scp1y == 2 * pen.currentY - pen.lastControlY
                     scp2x == Coord(rel, pen.currentX, c[1])
                     scp2y == Coord(rel, pen.currentY, c[2])
                     x == Coord(rel, pen.currentX, c[3])
                     y == Coord(rel, pen.currentY, c[4])
                 IN [ops |-> <<Op("bezierCurveTo", <<scp1x, scp1y, scp2x, scp2y, x, y>>)>>,
                     pen |-> [pen EXCEPT !.currentX = x, !.currentY = y,
                                         !.lastControlX = scp2x, !.lastControlY = scp2y]]
      [] type = "Q" ->
            LET c == getCoords(coords, 0, 4) IN
            IF c = NullCoords THEN Same
            ELSE LET qcp1x == Coord(rel, pen.currentX, c[1])
                     qcp1y == Coord(rel, pen.currentY, c[2])
                     x == Coord(rel, pen.currentX, c[3])
                     y == Coord(rel, pen.currentY, c[4])
                 IN [ops |-> <<Op("quadraticCurveTo", <<qcp1x, qcp1y, x, y>>)>>,
                     pen |-> [pen EXCEPT !.currentX = x, !.currentY = y,
                                         !.lastControlX = qcp1x, !.lastControlY = qcp1y]]
      [] type = "T" ->
            LET c == getCoords(coords, 0, 2) IN
            IF c = NullCoords THEN Same
            ELSE LET tcp1x == 2 * pen.currentX - pen.lastControlX
                     tcp1y == 2 * pen.currentY - pen.lastControlY
                     x == Coord(rel, pen.currentX, c[1])
                     y == Coord(rel, pen.currentY, c[2])
                 IN [ops |-> <<Op("quadraticCurveTo", <<tcp1x, tcp1y, x, y>>)>>,
                     pen |-> [pen EXCEPT !.currentX = x, !.currentY = y,
                                         !.lastControlX = tcp1x, !.lastControlY = tcp1y]]
      [] type = "Z" ->
            [ops |-> <<Op("lineTo", <<pen.startX, pen.startY>>), Op("closePath", <<>>)>>,
             pen |-> CursorToStart(pen)]
      [] OTHER -> Same

\* The loop from command i on: for every command its entry
\* [command, before, ops, after].
RECURSIVE renderCommands(_, _, _)
renderCommands(commands, i, pen) ==
    IF i > Len(commands) THEN <<>>
    ELSE LET r == Interpret(pen, commands[i])
         IN <<[command |-> commands[i], before |-> pen, ops |-> r.ops,
               after |-> r.pen]>>
            \o renderCommands(commands, i + 1, r.pen)

\* The operations on the context, beginPath first
RECURSIVE StepOps(_)
StepOps(steps) ==
    IF steps = <<>> THEN <<>> ELSE Head(steps).ops \o StepOps(Tail(steps))

renderSVGPath(pathData) ==
    IF pathData = <<>> THEN [ops |-> <<>>, steps |-> <<>>]
    ELSE LET steps == renderCommands(pathData, 1, PenStart)
         IN [ops |-> <<Op("beginPath", <<>>)>> \o StepOps(steps), steps |-> steps]

\* Paths the interpreter is run on: up to MaxCommands commands, each a
\* command letter with as many numbers as it takes or with one too few.
MaxCommands == 3

Arity(type) ==
    CASE type \in {"M", "L", "T"} -> 2
      [] type \in {"H", "V"} -> 1
      [] type \in {"S", "Q"} -> 4
      [] type = "C" -> 6
      [] OTHER -> 0

CommandNumbers(type) ==
    CASE type = "M" -> <<10, 20>>
      [] type = "L" -> <<30, 5>>
      [] type = "H" -> <<7>>
      [] type = "V" -> <<9>>
      [] type = "C" -> <<1, 2, 3, 4, 50, 60>>
      [] type = "S" -> <<5, 6, 70, 80>>
      [] type = "Q" -> <<11, 12, 40, 45>>
      [] type = "T" -> <<90, 15>>
      [] OTHER -> <<>>

Command(type, coords) == [type |-> type, coords |-> coords]

PathCommands ==
    { Command(type, CommandNumbers(toUpperCase(type))) :
        type \in {"M", "m", "L", "l", "H", "V", "C", "S", "s", "Q", "T", "t", "Z"} }
    \cup
    { Command(type, SubSeq(CommandNumbers(type), 1, Arity(type) - 1)) :
        type \in {"M", "L", "H", "V", "C", "S", "Q", "T"} }

\* One call renderSVGPath(ctx, pathData) on a fresh context.
Render ==
    /\ mode = "path"
    /\ ~svg.rendered
    /\ LET r == renderSVGPath(svg.path) IN
          svg' = [svg EXCEPT !.rendered = TRUE, !.ops = r.ops, !.steps = r.steps]
    /\ UNCHANGED <<mode, cfg, gen, scene, evalAt, objState, sg, img>>
    /\ UNCHANGED encVars

InitPath ==
    /\ mode = "path"
    /\ cfg = [fps |-> 1, duration |-> 1, easing |-> "linear"]
    /\ gen = NewGen("off")
    /\ InitEnc
    /\ scene = NoScene
    /\ evalAt = NoEval
    /\ objState = NoState
    /\ sg = NoSg
    /\ img = NoImg
    /\ \E n \in 0..MaxCommands :
          \E pathData \in [1..n -> PathCommands] :
              svg = [NoSvg EXCEPT !.path = pathData]

NextPath == Render

SpecPath == InitPath /\ [][NextPath]_vars

\* Closed paths: up to MaxClosedCommands commands out of the triangle
\* "M0 0 L10 0 L10 10 Z", a second and a relative move, a move with one
\* number only, a relative line and both spellings of the close command.
MaxClosedCommands == 4

ClosedPathCommands ==
    { Command("M", <<0, 0>>), Command("M", <<10, 20>>), Command("M", <<10>>),
      Command("m", <<3, 4>>), Command("L", <<10, 0>>), Command("L", <<10, 10>>),
      Command("l", <<5, 5>>), Command("Z", <<>>), Command("z", <<>>) }

InitClosedPath ==
    /\ mode = "path"
    /\ cfg = [fps |-> 1, duration |-> 1, easing |-> "linear"]
    /\ gen = NewGen("off")
    /\ InitEnc
    /\ scene = NoScene
    /\ evalAt = NoEval
    /\ objState = NoState
    /\ sg = NoSg
    /\ img = NoImg
    /\ \E n \in 0..MaxClosedCommands :
          \E pathData \in [1..n -> ClosedPathCommands] :
              svg = [NoSvg EXCEPT !.path = pathData]

SpecClosedPath == InitClosedPath /\ [][NextPath]_vars

(***************************************************************************)
(* latex-renderer.ts: applyTransform.  The attribute text is given as the  *)
(* list of its parts in textual order, [fn, args] for "fn(args)" with the  *)
(* numbers between the parentheses; the empty list is the missing          *)
(* attribute.  rotate is called with deg * PI / 180, written <<deg, 180>>. *)
(***************************************************************************)
TransformPart(fn, args) == [fn |-> fn, args |-> args]

MinOf(S) == CHOOSE i \in S : \A j \in S : i <= j

\* Where a regular expression starting with "fn(" matches first; 0: nowhere
FirstMatch(transform, fn) ==
    LET at == { k \in DOMAIN transform : transform[k].fn = fn }
    IN IF at = {} THEN 0 ELSE MinOf(at)

\* /scale\(([^,]+)(?:,([^)]+))?\)/: the first group runs up to the first
\* comma after "scale(", wherever that is, and the second group is what
\* stands between that comma and the next ")"; parseFloat reads the number a
\* group starts with.
ScaleY(transform, s) ==
    LET commas == { k \in s..Len(transform) : Len(transform[k].args) = 2 }
    IN IF commas = {} THEN transform[s].args[1]
       ELSE transform[MinOf(commas)].args[2]

applyTransform(transform) ==
    LET t == FirstMatch(transform, "translate")
        s == FirstMatch(transform, "scale")
        r == FirstMatch(transform, "rotate")
    IN (IF t = 0 THEN <<>> ELSE <<Op("translate", transform[t].args)>>)
       \o (IF s = 0 THEN <<>>
           ELSE <<Op("scale", <<transform[s].args[1], ScaleY(transform, s)>>)>>)
       \o (IF r = 0 THEN <<>>
           ELSE <<Op("rotate", <<transform[r].args[1], 180>>)>>)

\* Attribute texts: up to MaxParts parts
MaxParts == 3

TransformParts ==
    { TransformPart("translate", <<10, 0>>), TransformPart("translate", <<3, 4>>),
      TransformPart("scale", <<2>>), TransformPart("scale", <<2, 3>>),
      TransformPart("rotate", <<90>>), TransformPart("rotate", <<45>>) }

\* One call applyTransform(ctx, transform) on a fresh context.
ApplyTransform ==
    /\ mode = "transform"
    /\ ~svg.applied
    /\ svg' = [svg EXCEPT !.applied = TRUE, !.ops = applyTransform(svg.transform)]
    /\ UNCHANGED <<mode, cfg, gen, scene, evalAt, objState, sg, img>>
    /\ UNCHANGED encVars

InitTransform ==
    /\ mode = "transform"
    /\ cfg = [fps |-> 1, duration |-> 1, easing |-> "linear"]
    /\ gen = NewGen("off")
    /\ InitEnc
    /\ scene = NoScene
    /\ evalAt = NoEval
    /\ objState = NoState
    /\ sg = NoSg
    /\ img = NoImg
    /\ \E n \in 0..MaxParts :
          \E transform \in [1..n -> TransformParts] :
              svg = [NoSvg EXCEPT !.transform = transform]

NextTransform == ApplyTransform

SpecTransform == InitTransform /\ [][NextTransform]_vars

(***************************************************************************)
(* latex-renderer.ts: renderLatex, the text runs.  The model has no free   *)
(* paths, lines or rectangles; positions are in the frame renderLatex sets *)
(* up at (x, y), so the anchor is x = 0.  A run is [x, y, content], a      *)
(* drawn character [char, x, y, advance, how, ops].                        *)
(***************************************************************************)
DEFAULT_GLYPH_WIDTH == 500
GLYPH_SCALE_FACTOR == Rat(1, 100)
FALLBACK_CHAR_WIDTH == 6

NoGlyph == [has |-> FALSE, width |-> 0, path |-> <<>>]
Glyph(width, path) == [has |-> TRUE, width |-> width, path |-> path]

\* glyphs.get(char) for the map parseSVGContent builds from a font that
\* draws "a": "a" has an outline, "b" is a basic character the font lacks
\* (default width, empty path), "+" has no entry.
glyphsGet(char) ==
    CASE char = "a" ->
            Glyph(600, <<Command("M", <<0, 0>>), Command("L", <<600, 0>>)>>)
      [] char = "b" -> Glyph(DEFAULT_GLYPH_WIDTH, <<>>)
      [] OTHER -> NoGlyph

\* glyph.width * GLYPH_SCALE_FACTOR
GlyphAdvance(glyph) == RMul(RInt(glyph.width), GLYPH_SCALE_FACTOR)

RMin(a, b) == IF RLt(b, a) THEN b ELSE a
RMax(a, b) == IF RLt(a, b) THEN b ELSE a

\* minX = Infinity, maxX = -Infinity
NoExtent == [seen |-> FALSE, minX |-> Zero, maxX |-> Zero]

\* The first pass over one run from character i on
RECURSIVE measureRun(_, _, _, _)
measureRun(content, i, charX, extent) ==
    IF i > Len(content) THEN extent
    ELSE LET glyph == glyphsGet(content[i]) IN
         IF glyph.has
         THEN LET right == RAdd(charX, GlyphAdvance(glyph)) IN
              measureRun(content, i + 1, right,
                  [seen |-> TRUE,
                   minX |-> IF extent.seen THEN RMin(extent.minX, charX) ELSE charX,
                   maxX |-> IF extent.seen THEN RMax(extent.maxX, right) ELSE right])
         ELSE measureRun(content, i + 1, charX, extent)

RECURSIVE measureRuns(_, _, _)
measureRuns(textElements, k, extent) ==
    IF k > Len(textElements) THEN extent
    ELSE measureRuns(textElements, k + 1,
             measureRun(textElements[k].content, 1, RInt(textElements[k].x), extent))

\* "minX !== Infinity ? -(minX + maxX) / 2 : 0"
CenterOffset(extent) ==
    IF extent.seen
    THEN RDiv(RSub(Zero, RAdd(extent.minX, extent.maxX)), RInt(2))
    ELSE Zero

\* The second pass over one run from character i on
RECURSIVE drawRun(_, _, _)
drawRun(textElement, i, charX) ==
    IF i > Len(textElement.content) THEN <<>>
    ELSE LET char == textElement.content[i]
             glyph == glyphsGet(char)
         IN IF glyph.has /\ glyph.path # <<>>
            THEN <<[char |-> char, x |-> charX, y |-> textElement.y,
                    advance |-> GlyphAdvance(glyph), how |-> "glyph",
                    ops |-> renderSVGPath(glyph.path).ops]>>
                 \o drawRun(textElement, i + 1, RAdd(charX, GlyphAdvance(glyph)))
            ELSE <<[char |-> char, x |-> charX, y |-> textElement.y,
                    advance |-> RInt(FALLBACK_CHAR_WIDTH), how |-> "fallback",
                    ops |-> <<>>]>>
                 \o drawRun(textElement, i + 1, RAdd(charX, RInt(FALLBACK_CHAR_WIDTH)))

RECURSIVE drawRuns(_, _, _)
drawRuns(textElements, k, centerOffset) ==
    IF k > Len(textElements) THEN <<>>
    ELSE drawRun(textElements[k], 1, RAdd(RInt(textElements[k].x), centerOffset))
         \o drawRuns(textElements, k + 1, centerOffset)

renderLatex(textElements) ==
    LET centerOffset == CenterOffset(measureRuns(textElements, 1, NoExtent))
    IN [centerOffset |-> centerOffset,
        draws |-> drawRuns(textElements, 1, centerOffset)]

\* Models: up to MaxRuns runs of up to MaxChars characters
MaxRuns == 2
MaxChars == 2

Chars == {"a", "b", "+"}
Contents == UNION { [1..n -> Chars] : n \in 0..MaxChars }

\* Run k starts at x = 5 (k - 1)
RunX(k) == 5 * (k - 1)

\* One call renderLatex(ctx, latexData, x, y, scale).
RenderLatex ==
    /\ mode = "latex"
    /\ ~svg.typeset
    /\ LET r == renderLatex(svg.text) IN
          svg' = [svg EXCEPT !.typeset = TRUE, !.centerOffset = r.centerOffset,
                             !.draws = r.draws]
    /\ UNCHANGED <<mode, cfg, gen, scene, evalAt, objState, sg, img>>
    /\ UNCHANGED encVars

InitLatex ==
    /\ mode = "latex"
    /\ cfg = [fps |-> 1, duration |-> 1, easing |-> "linear"]
    /\ gen = NewGen("off")
    /\ InitEnc
    /\ scene = NoScene
    /\ evalAt = NoEval
    /\ objState = NoState
    /\ sg = NoSg
    /\ img = NoImg
    /\ \E n \in 0..MaxRuns :
          \E contents \in [1..n -> Contents] :
              svg = [NoSvg EXCEPT !.text =
                       [k \in 1..n |->
                           [x |-> RunX(k), y |-> 0, content |-> contents[k]]]]

NextLatex == RenderLatex

SpecLatex == InitLatex /\ [][NextLatex]_vars

(***************************************************************************)
(* Scenes of fade tracks: up to MaxFadeTracks tracks of object "a", each   *)
(* with one of the four easings, from and to within [0, 1].                *)
(***************************************************************************)
MaxFadeTracks == 2

FadeTracks ==
    { Track("a", "fade", tm, e, Props(Num(p[1]), Num(p[2]), <<>>, "")) :
        tm \in TrackTimings, e \in Easings, p \in {<<Zero, One>>, <<One, Half>>} }

InitFade ==
    /\ mode = "timeline"
    /\ cfg = [fps |-> 1, duration |-> 1, easing |-> "linear"]
    /\ gen = NewGen("off")
    /\ InitEnc
    /\ \E n \in 0..MaxFadeTracks :
          \E animations \in [1..n -> FadeTracks] : scene = SceneWith(animations)
    /\ evalAt = NoEval
    /\ objState = NoState
    /\ sg = NoSg
    /\ img = NoImg
    /\ svg = NoSvg

SpecFade == InitFade /\ [][NextTimeline]_vars

(***************************************************************************)
(* scene-renderer.ts: getSceneStateAtTime.  The Map is the list of its     *)
(* entries [id, state] in insertion order; set replaces the value of a key *)
(* the map already has.                                                    *)
(***************************************************************************)
MapSet(map, key, value) ==
    IF \E k \in DOMAIN map : map[k].id = key
    THEN [k \in DOMAIN map |->
             IF map[k].id = key THEN [id |-> key, state |-> value] ELSE map[k]]
    ELSE Append(map, [id |-> key, state |-> value])

MapHas(map, key) == \E k \in DOMAIN map : map[k].id = key
MapGet(map, key) == map[CHOOSE k \in DOMAIN map : map[k].id = key].state

objectStateUnfiltered(s, object, time) ==
    applyAnimations(InitialState(object), s.animations, 1, time)

\* "getObjectStateAtTime(object, scene.animations, time)"
objectState(s, object, time) ==
    getObjectStateAtTime(object, s.animations, time)

\* The loop over scene.objects from index i on
RECURSIVE setObjectStates(_, _, _, _)
setObjectStates(s, i, time, sceneState) ==
    IF i > Len(s.objects) THEN sceneState
    ELSE setObjectStates(s, i + 1, time,
             MapSet(sceneState, s.objects[i].id, objectState(s, s.objects[i], time)))

getSceneStateAtTime(s, time) == setObjectStates(s, 1, time, <<>>)

\* Scenes: the objects "a" and "b" (ids are unique) in either order, or one
\* of them, or none, with up to MaxSceneTracks tracks of "a", of "b" and of
\* the undeclared id "ghost".
MaxSceneTracks == 2

ObjectLists == { <<>>, <<ObjA>>, <<ObjB>>, <<ObjA, ObjB>>, <<ObjB, ObjA>> }

SceneStateTracks ==
    UNION { { Track(id, "move", <<0, 2>>, "linear",
                    Props(Pt(Zero, Zero), Pt(RInt(100), RInt(100)), <<>>, "")),
              Track(id, "fade", <<1, 2>>, "easeIn",
                    Props(Num(One), Num(Zero), <<>>, "")) } :
            id \in {"a", "b", "ghost"} }

\* evalAt.obj of a call for the whole scene
AllObjects == 0 - 1

\* One call getSceneStateAtTime(scene, time).
EvaluateScene ==
    /\ mode = "scenestate"
    /\ evalAt = NoEval
    /\ \E tick \in 0..MaxTick :
          /\ evalAt' = [obj |-> AllObjects, time |-> tick]
          /\ objState' = getSceneStateAtTime(scene, TimeOf(tick))
    /\ UNCHANGED <<mode, cfg, gen, scene, sg, img, svg>>
    /\ UNCHANGED encVars

InitSceneState ==
    /\ mode = "scenestate"
    /\ cfg = [fps |-> 1, duration |-> 1, easing |-> "linear"]
    /\ gen = NewGen("off")
    /\ InitEnc
    /\ \E objects \in ObjectLists :
          \E n \in 0..MaxSceneTracks :
             \E animations \in [1..n -> SceneStateTracks] :
                scene = [duration |-> 3, objects |-> objects, animations |-> animations]
    /\ evalAt = NoEval
    /\ objState = NoState
    /\ sg = NoSg
    /\ img = NoImg
    /\ svg = NoSvg

NextSceneState == EvaluateScene

SpecSceneState == InitSceneState /\ [][NextSceneState]_vars

(***************************************************************************)
(* Properties of the frame loop and the encoder                            *)
(***************************************************************************)

\* C1: generateAnimation processes the frames one at a time in index order:
\* the clear and draw of a frame happen only when the writeFrame promise of
\* every earlier frame has resolved, also when a write waits for a drain.
C1_FramesStrictlySequential ==
    [][gen'.drawn > gen.drawn =>
          /\ gen'.drawn = gen.drawn + 1
          /\ gen.frameNumber = gen.drawn
          /\ Len(wf) = gen.drawn
          /\ \A i \in DOMAIN wf : wf[i].st = "resolved"]_vars

\* A second frame's write waits for a drain after a first frame that waited too.
C1_Witness ==
    /\ gen.pc = "await_write"
    /\ Len(wf) = 2 /\ gen.drawn = 2
    /\ ~wf[1].flushed /\ wf[1].st = "resolved"
    /\ wf[2].st = "pending"

FrameFailed == gen.err = ErrDraw \/ \E i \in DOMAIN wf : wf[i].st = "rejected"

\* C2: once the draw callback has thrown or a writeFrame has rejected,
\* generateAnimation draws and writes no later frame, never calls finish(),
\* calls kill() before it rejects, and rejects with that same error.
C2_FailureKillsThenRejects ==
    (mode = "pipeline" /\ FrameFailed) =>
        /\ gen.pc \in {"await_write", "catch", "throw", "rejected"}
        /\ calls.finish = 0
        /\ gen.drawn = gen.frameNumber + 1
        /\ Len(wf) <= gen.drawn
        /\ \A i \in DOMAIN wf : i < Len(wf) => wf[i].st = "resolved"
        /\ gen.pc \in {"catch", "throw", "rejected"} =>
              gen.err = IF LastWf.st = "rejected" THEN LastWf.err ELSE ErrDraw
        /\ gen.pc = "rejected" => calls.kill = 1 /\ handle = "null"
        /\ gen.pc # "rejected" => calls.kill <= 1

\* The second frame's writeFrame was rejected by a stream error and the
\* render has rejected with it.
C2_Witness ==
    /\ gen.pc = "rejected"
    /\ Len(wf) = 2 /\ wf[2].st = "rejected"
    /\ gen.err = ErrStream
    /\ TotalFrames > 2

\* C3: in a render without failure exactly TotalFrames writeFrame calls are
\* made and all have resolved before finish() is called, and the render
\* resolves only after the process has closed with exit code 0.
C3_AllFramesBeforeFinish ==
    mode = "pipeline" =>
        /\ calls.finish > 0 =>
              /\ Len(wf) = TotalFrames
              /\ gen.drawn = TotalFrames
              /\ \A i \in DOMAIN wf : wf[i].st = "resolved" /\ wf[i].bytes
        /\ gen.pc = "resolved" =>
              /\ calls.finish = 1
              /\ finishP.st = "resolved"
              /\ proc.state = "exited" /\ proc.exitCode = "0"
              /\ calls.kill = 0

C3_Witness ==
    /\ gen.pc = "resolved"
    /\ cfg.fps = 3 /\ cfg.duration = 2
    /\ Len(wf) = 6

\* No event is left that could settle the promise generateAnimation awaits.
Quiescent ==
    /\ ~timerArmed
    /\ proc.state = "exited"
    /\ stdin.state = "destroyed"

Hung ==
    /\ gen.pc \in {"await_start", "await_write", "await_finish"}
    /\ ~GenRunnable
    /\ Quiescent

EncoderFailedAfterStart ==
    /\ startP.st = "resolved"
    /\ \/ stdin.errored
       \/ proc.state = "exited" /\ proc.exitCode = "1"

\* C4: when, after start() has resolved, stdin emits an error or the process
\* exits with a non-zero code, the failure does not escape as an unhandled
\* event, the render does not resolve and does not hang, and once it has
\* rejected the process was killed.
C4_EncoderFailureSurfaces ==
    (mode = "pipeline" /\ EncoderFailedAfterStart) =>
        /\ ~crashed
        /\ gen.pc # "resolved"
        /\ ~Hung
        /\ gen.pc = "rejected" => calls.kill = 1

\* C4, its unhandled-event part alone: a stream error never escapes.
C4_NoUnhandledStreamError ==
    (mode = "pipeline" /\ stdin.errored) => ~crashed

FinishCalled == calls'.finish = calls.finish + 1
FinishSettles == finishP.st = "pending" /\ finishP'.st # "pending"
CloseEmitted == proc.state # "exited" /\ proc'.state = "exited"

\* C6 as stated: finish() ends stdin and settles only on the 'close' event,
\* resolving on code 0 and rejecting with the code otherwise, and leaves no
\* process handle.
C6_FinishOnlyOnClose ==
    [][/\ FinishCalled =>
             /\ finishP'.st = "pending"
             /\ stdin'.state \in {"ended", "destroyed"}
       /\ FinishSettles =>
             /\ CloseEmitted
             /\ finishP'.st = "resolved" <=> proc'.exitCode = "0"
             /\ finishP'.st = "rejected" => finishP'.err = ErrExit(proc'.exitCode)
             /\ handle' = "null"]_vars

\* C6 as amended: a finish() called while the encoder holds a process handle
\* ends stdin and settles only on the 'close' event, resolving on code 0 and
\* rejecting with the code otherwise, and leaves no process handle; a
\* finish() called without a handle resolves at once.
C6_FinishOnCloseWhenStarted ==
    [][/\ FinishCalled =>
             IF handle = "null"
             THEN finishP'.st = "resolved" /\ handle' = "null"
             ELSE /\ finishP'.st = "pending"
                  /\ stdin'.state \in {"ended", "destroyed"}
       /\ FinishSettles =>
             /\ CloseEmitted
             /\ finishP'.st = "resolved" <=> proc'.exitCode = "0"
             /\ finishP'.st = "rejected" => finishP'.err = ErrExit(proc'.exitCode)
             /\ handle' = "null"]_vars

\* A finish() with a handle was rejected by a close with code 1.
C6_Witness ==
    /\ finishP.hadHandle
    /\ finishP.st = "rejected"
    /\ finishP.err = ErrExit("1")
    /\ handle = "null"

\* C7: no frame bytes reach the stream outside the Started phase: a
\* writeFrame called before start(), after finish() was called or after
\* kill() is rejected and writes nothing.
C7_WriteOnlyWhenStarted ==
    \A i \in DOMAIN wf :
        wf[i].phase # "Started" => wf[i].st = "rejected" /\ ~wf[i].bytes

\* C8: start() resolves only while the process is alive with its stdin open,
\* and a process that failed to spawn or exited by itself with a non-zero
\* code leaves start() rejected.
C8_StartResolvesWhenReady ==
    [][/\ (startP.st = "pending" /\ startP'.st = "resolved") =>
             proc'.state = "running" /\ stdin'.state = "open"
       /\ (proc'.state = "exited" /\ proc'.exitCode \in {"1", "errno"}) =>
             startP'.st = "rejected"]_vars

(***************************************************************************)
(* Properties of the timeline evaluator (SpecTimeline)                     *)
(***************************************************************************)
Evaluated == evalAt # NoEval
EvalObject == scene.objects[evalAt.obj]
EvalTime == TimeOf(evalAt.time)

\* The properties of an object's state, and the one a track writes.
StateProperties == {"position", "rotation", "scale", "opacity", "fill", "stroke"}

PropertyOf(animation) ==
    CASE animation.type = "move" -> "position"
      [] animation.type = "rotate" -> "rotation"
      [] animation.type = "scale" -> "scale"
      [] animation.type = "fade" -> "opacity"
      [] animation.type = "color" -> animation.properties.property

StateField(state, property) ==
    CASE property = "position" -> state.position
      [] property = "rotation" -> state.rotation
      [] property = "scale" -> state.scale
      [] property = "opacity" -> state.opacity
      [] property = "fill" -> state.colors.fill
      [] property = "stroke" -> state.colors.stroke

\* Indices of the evaluated object's tracks of a property with startTime <= t.
StartedTracks(property) ==
    { i \in DOMAIN scene.animations :
        /\ scene.animations[i].objectId = EvalObject.id
        /\ PropertyOf(scene.animations[i]) = property
        /\ RGe(EvalTime, scene.animations[i].startTime) }

MaxOf(S) == CHOOSE i \in S : \A j \in S : j <= i

\* start <= t < start + duration
ActiveAt(animation, time) ==
    /\ RGe(time, animation.startTime)
    /\ RLt(time, RAdd(animation.startTime, animation.duration))

\* C9: overlapping tracks on one property are not blended.  For every object,
\* property and time t, getObjectStateAtTime yields the value contributed by
\* the last track in array order among the object's tracks of that property
\* with startTime <= t (active or finished), and the object's initial value
\* when there is no such track.
C9_LastStartedTrackWins ==
    Evaluated =>
        \A property \in StateProperties :
            StateField(objState, property) =
                IF StartedTracks(property) = {}
                THEN StateField(InitialState(EvalObject), property)
                ELSE evaluateAnimation(
                        scene.animations[MaxOf(StartedTracks(property))], EvalTime)

\* Two move tracks of the evaluated object are both active, would give
\* different positions, and the position is the later-declared one's.
C9_Witness ==
    /\ Evaluated
    /\ Len(scene.animations) = 2
    /\ \A i \in 1..2 :
          /\ scene.animations[i].objectId = EvalObject.id
          /\ scene.animations[i].type = "move"
          /\ ActiveAt(scene.animations[i], EvalTime)
    /\ evaluateAnimation(scene.animations[1], EvalTime)
         # evaluateAnimation(scene.animations[2], EvalTime)
    /\ objState.position = evaluateAnimation(scene.animations[2], EvalTime)

NoTrackBeforeZero ==
    \A i \in DOMAIN scene.animations : ~RLt(scene.animations[i].startTime, Zero)

NoOwnTrackAtZero ==
    \A i \in DOMAIN scene.animations :
        scene.animations[i].objectId = EvalObject.id
            => scene.animations[i].startTime # Zero

\* C10 as stated: for any scene in which no track starts before time 0, the
\* state computed for an object at time 0 equals the object's initial state
\* exactly.
C10_InitialStateAtTimeZero ==
    (Evaluated /\ evalAt.time = 0 /\ NoTrackBeforeZero)
        => objState = InitialState(EvalObject)

\* C10 amended: for any scene in which no track starts before time 0 and no
\* track of the object starts at time 0, the state computed for the object at
\* time 0 equals the object's initial state exactly.
C10_InitialStateAtTimeZeroWithoutTrackAtZero ==
    (Evaluated /\ evalAt.time = 0 /\ NoTrackBeforeZero /\ NoOwnTrackAtZero)
        => objState = InitialState(EvalObject)

\* An object with two tracks of its own, both starting after time 0, is
\* evaluated at time 0 and is in its initial state.
C10_Witness ==
    /\ Evaluated
    /\ evalAt.time = 0
    /\ Len(scene.animations) = 2
    /\ \A i \in 1..2 :
          /\ scene.animations[i].objectId = EvalObject.id
          /\ RLt(Zero, scene.animations[i].startTime)
    /\ objState = InitialState(EvalObject)

\* Indices of the evaluated object's tracks.
OwnTracks ==
    { i \in DOMAIN scene.animations :
        scene.animations[i].objectId = EvalObject.id }

\* The object has exactly one track, of the given type.
SingleTrackOf(type) ==
    /\ Evaluated
    /\ \E i \in OwnTracks :
          /\ OwnTracks = {i}
          /\ scene.animations[i].type = type

TheTrack == scene.animations[CHOOSE i \in OwnTracks : TRUE]
TrackEnd(animation) == RAdd(animation.startTime, animation.duration)

\* from + (to - from) * (t - startTime) / duration, on one coordinate
LinearAt(from, to, animation, time) ==
    RAdd(from, RDiv(RMul(RSub(to, from), RSub(time, animation.startTime)),
                    animation.duration))

\* C11: for a single move track with linear easing the position at a time t
\* with startTime <= t < startTime + duration is
\* from + (to - from) * (t - startTime) / duration, and at every
\* t >= startTime + duration it is exactly the track's to value.
C11_LinearMoveTrack ==
    (SingleTrackOf("move") /\ TheTrack.easing = "linear") =>
        LET from == TheTrack.properties.from
            to == TheTrack.properties.to
        IN /\ ActiveAt(TheTrack, EvalTime) =>
                objState.position =
                    Pt(LinearAt(from.x, to.x, TheTrack, EvalTime),
                       LinearAt(from.y, to.y, TheTrack, EvalTime))
           /\ RGe(EvalTime, TrackEnd(TheTrack)) => objState.position = to

\* The track {from:(0,0), to:(100,100), startTime:0, duration:2, linear} is
\* the object's only track and gives (50,50) at t = 1.
C11_Witness ==
    /\ SingleTrackOf("move")
    /\ TheTrack.easing = "linear"
    /\ TheTrack.properties.from = Pt(Zero, Zero)
    /\ TheTrack.properties.to = Pt(RInt(100), RInt(100))
    /\ TheTrack.startTime = Zero
    /\ TheTrack.duration = RInt(2)
    /\ EvalTime = One
    /\ objState.position = Pt(RInt(50), RInt(50))

\* from + k * rotations * 2 * pi for the track's payload
TurnsFrom(animation, k) ==
    NumPi(animation.properties.from.x,
          RAdd(animation.properties.from.y,
               RMul(k, RMul(animation.properties.rotations[1], RInt(2)))))

LocalProgress(animation, time) ==
    RDiv(RSub(time, animation.startTime), animation.duration)

CarriesRotations(animation) == animation.properties.rotations # <<>>

\* C12: a rotate track that carries a rotations payload ignores its to
\* field: with linear easing its rotation at local progress p is
\* from + p * rotations * 2pi, and at every time >= startTime + duration it
\* is from + rotations * 2pi.
C12_RotationsPayloadIgnoresTo ==
    (SingleTrackOf("rotate") /\ CarriesRotations(TheTrack)) =>
        /\ (TheTrack.easing = "linear" /\ ActiveAt(TheTrack, EvalTime)) =>
              objState.rotation =
                  TurnsFrom(TheTrack, LocalProgress(TheTrack, EvalTime))
        /\ RGe(EvalTime, TrackEnd(TheTrack)) =>
              objState.rotation = TurnsFrom(TheTrack, One)

(***************************************************************************)
(* Properties of validateScene (SpecValidate)                              *)
(***************************************************************************)
Validated == sg.pc = "validated"
DeclaredIds == { scene.objects[i].id : i \in DOMAIN scene.objects }

\* duration > 0, at least one object, every objectId declared, every
\* startTime >= 0, every startTime + duration <= scene duration
WellFormed ==
    /\ scene.duration > 0
    /\ Len(scene.objects) >= 1
    /\ \A i \in DOMAIN scene.animations :
          /\ scene.animations[i].objectId \in DeclaredIds
          /\ RGe(scene.animations[i].startTime, Zero)
          /\ RGe(RInt(scene.duration), TrackEnd(scene.animations[i]))

MentionsId(errors, objectId) == \E e \in DOMAIN errors : errors[e][2] = objectId

\* C13: validateScene returns a non-empty list that contains the offending
\* object id whenever some animation's objectId is not the id of a declared
\* object, and returns an empty list for every well-formed scene.
C13_ValidateScene ==
    Validated =>
        /\ \A i \in DOMAIN scene.animations :
              scene.animations[i].objectId \notin DeclaredIds =>
                  /\ sg.errors # <<>>
                  /\ MentionsId(sg.errors, scene.animations[i].objectId)
        /\ WellFormed => sg.errors = <<>>

\* A scene with objects whose only fault is a track of the undeclared object
\* "ghost" has been validated, and the one error names "ghost".
C13_Witness ==
    /\ Validated
    /\ scene.duration = 2
    /\ Len(scene.objects) = 2
    /\ Len(scene.animations) = 2
    /\ scene.animations[1].objectId = "a"
    /\ scene.animations[2].objectId = "ghost"
    /\ sg.errors = <<ErrorMessage("Animation references unknown object", "ghost")>>

(***************************************************************************)
(* Properties of generateSceneAnimation (SpecScene)                        *)
(***************************************************************************)
SceneCalled == sg.pc \notin {"off", "idle"}
AbortedByValidation == sg.pc = "rejected" /\ sg.errors # <<>>

\* The scene's only validation findings are tracks that end after the scene.
OnlyExtendsBeyond ==
    /\ validateScene(scene) # <<>>
    /\ \A e \in DOMAIN validateScene(scene) :
          validateScene(scene)[e][1] = "Animation extends beyond scene duration"

\* C14: a track with startTime + duration greater than the scene duration is
\* reported by validation but does not abort rendering: generateSceneAnimation
\* is not rejected by validation for a scene whose only validation finding is
\* such a track.
C14_ExtendsBeyondDoesNotAbort ==
    \A i \in DOMAIN scene.animations :
        ExtendsBeyond(scene.animations[i], scene.duration) =>
            /\ MentionsId(validateScene(scene), scene.animations[i].objectId)
            /\ OnlyExtendsBeyond => ~AbortedByValidation

\* Something of the render has happened: a markup compilation, a spawn of
\* the encoder process, or a drawn frame.
RenderStarted ==
    \/ sg.latexRuns > 0
    \/ calls.start > 0
    \/ proc.state # "none"
    \/ gen.drawn > 0

\* C15: validation errors are never raised mid-render.  The scene is
\* validated before anything else, and when validation reports an error no
\* markup compilation is run, no encoder process is spawned and no frame is
\* drawn.
C15_ValidationBeforeRender ==
    /\ RenderStarted => (SceneCalled /\ sg.errors = <<>> /\ validateScene(scene) = <<>>)
    /\ (SceneCalled /\ validateScene(scene) # <<>>) =>
          (AbortedByValidation /\ ~RenderStarted)

\* A scene with an equation and an undeclared object has been rejected by
\* validation with nothing compiled, spawned or drawn.
C15_Witness ==
    /\ AbortedByValidation
    /\ HasEquation(scene)
    /\ \E i \in DOMAIN scene.animations : scene.animations[i].objectId \notin DeclaredIds
    /\ ~RenderStarted

(***************************************************************************)
(* Properties of the frame handed to the draw callback (Spec)              *)
(***************************************************************************)
FrameDrawn == mode = "pipeline" /\ gen.drawn >= 1

\* frameIndex / (totalFrames - 1) of the frame last handed to the callback
RawProgress == Rat(gen.frame.frameNumber, TotalFrames - 1)

\* C16: when the total frame count fps * duration is 1, the single frame is
\* produced with progress 0 and time 0, never an undefined or not-a-number
\* progress or time.
C16_SingleFrameProgressZero ==
    (FrameDrawn /\ TotalFrames = 1) =>
        /\ gen.frame.progress = Zero
        /\ gen.frame.time = Zero

\* C17: for every frame and every configured easing function, the time passed
\* to the draw callback is rawProgress * duration with
\* rawProgress = frameIndex / (totalFrames - 1); the easing determines
\* easedProgress only, so the time does not depend on it.
C17_TimeUsesRawProgress ==
    FrameDrawn =>
        /\ gen.frame.progress = RawProgress
        /\ gen.frame.time = RMul(RawProgress, RInt(cfg.duration))

\* A frame strictly inside the animation was drawn by a generator with a
\* non-linear easing: its eased progress differs from the raw one and its
\* time is still the raw progress times the duration.
C17_Witness ==
    /\ FrameDrawn
    /\ cfg.easing = "easeIn"
    /\ gen.frame.frameNumber = 1
    /\ TotalFrames = 4
    /\ gen.frame.progress = Rat(1, 3)
    /\ gen.frame.easedProgress = Rat(1, 27)
    /\ gen.frame.time = Rat(2, 3)

(***************************************************************************)
(* Properties of convertImageDataToRGB (SpecConvert)                       *)
(***************************************************************************)
\* C18: for a width x height RGBA source convertImageDataToRGB returns a
\* buffer of exactly width * height * 3 bytes in which pixel i's bytes are the
\* R, G, B bytes of source pixel i in the same order, the alpha byte dropped;
\* so every buffer handed to writeFrame has the declared size.
C18_RgbDropsAlpha ==
    img.converted =>
        /\ Len(img.rgb) = img.width * img.height * 3
        /\ \A i \in 0..(img.width * img.height - 1) :
              /\ img.rgb[3 * i + 1] = img.data[4 * i + 1]
              /\ img.rgb[3 * i + 2] = img.data[4 * i + 2]
              /\ img.rgb[3 * i + 3] = img.data[4 * i + 3]

\* The 2 x 1 source [255,0,0,255, 0,255,0,128] was converted to
\* [255,0,0, 0,255,0].
C18_Witness ==
    /\ img.converted
    /\ img.width = 2 /\ img.height = 1
    /\ img.data = <<255, 0, 0, 255, 0, 255, 0, 128>>
    /\ img.rgb = <<255, 0, 0, 0, 255, 0>>

(***************************************************************************)
(* Properties of renderSVGPath (SpecPath)                                  *)
(***************************************************************************)
Takes(command) == Arity(toUpperCase(command.type))
TooFewNumbers(command) == Len(command.coords) < Takes(command)

\* The command before step i is a curve a smooth command of this type
\* continues: C or S for S, Q or T for T; a skipped command continues none.
CompatiblePrevious(i) ==
    /\ i > 1
    /\ ~TooFewNumbers(svg.path[i - 1])
    /\ \/ /\ toUpperCase(svg.path[i].type) = "S"
          /\ toUpperCase(svg.path[i - 1].type) \in {"C", "S"}
       \/ /\ toUpperCase(svg.path[i].type) = "T"
          /\ toUpperCase(svg.path[i - 1].type) \in {"Q", "T"}

\* C19: an S/s or T/t command uses as its first control point the
\* reflection of the previous control point through the current cursor only
\* when the immediately preceding command was a compatible curve (C/S for S,
\* Q/T for T); after any other command, a skipped command or at path start
\* the first control point equals the current cursor.
C19_SmoothReflectsCompatibleOnly ==
    svg.rendered =>
        \A i \in DOMAIN svg.steps :
            LET step == svg.steps[i] IN
            (toUpperCase(step.command.type) \in {"S", "T"}
                /\ ~TooFewNumbers(step.command)) =>
                LET first == SubSeq(step.ops[1].args, 1, 2) IN
                IF CompatiblePrevious(i)
                THEN first = <<2 * step.before.currentX - step.before.lastControlX,
                               2 * step.before.currentY - step.before.lastControlY>>
                ELSE first = <<step.before.currentX, step.before.currentY>>

RemoveAt(seq, i) == SubSeq(seq, 1, i - 1) \o SubSeq(seq, i + 1, Len(seq))

\* C20: a command occurrence with fewer numbers than its arity (M/L/T: 2,
\* H/V: 1, S/Q: 4, C: 6) emits no drawing operation and leaves the cursor,
\* the subpath start and the last control point unchanged, so the following
\* commands are interpreted exactly as if that occurrence were absent.
C20_TooFewNumbersIsNoOp ==
    svg.rendered =>
        \A i \in DOMAIN svg.steps :
            TooFewNumbers(svg.path[i]) =>
                /\ svg.steps[i].ops = <<>>
                /\ svg.steps[i].after = svg.steps[i].before
                /\ Len(svg.path) > 1 =>
                      svg.ops = renderSVGPath(RemoveAt(svg.path, i)).ops

\* "M 10 20, C with five numbers, S 5 6 70 80": the C is skipped and the S
\* is drawn from (10, 20) exactly as in the path without the C.
C20_Witness ==
    /\ svg.rendered
    /\ Len(svg.path) = 3
    /\ svg.path[1] = Command("M", <<10, 20>>)
    /\ svg.path[2] = Command("C", <<1, 2, 3, 4, 50>>)
    /\ svg.path[3] = Command("S", <<5, 6, 70, 80>>)
    /\ svg.steps[2].ops = <<>>
    /\ svg.steps[3].before = svg.steps[1].after
    /\ Len(svg.ops) = 3

(***************************************************************************)
(* Properties of the close command (SpecClosedPath)                        *)
(***************************************************************************)
\* The steps before step i that emitted a moveTo
MovesBefore(i) ==
    { j \in 1..(i - 1) :
        svg.steps[j].ops # <<>> /\ svg.steps[j].ops[1].op = "moveTo" }

\* The point set by the most recent M/m before step i
SubpathStart(i) == svg.steps[MaxOf(MovesBefore(i))].ops[1].args

Triangle ==
    <<Command("M", <<0, 0>>), Command("L", <<10, 0>>),
      Command("L", <<10, 10>>), Command("Z", <<>>)>>

\* The points the straight operations of a drawing go through
PointsOf(ops) ==
    { ops[k].args : k \in { n \in DOMAIN ops : ops[n].op \in {"moveTo", "lineTo"} } }

\* C21: Z/z draws a line back to the point set by the most recent M/m,
\* closes the path and sets the cursor to that point, so a relative command
\* after Z is measured from the subpath start; "M0 0 L10 0 L10 10 Z" emits
\* moveTo(0,0), lineTo(10,0), lineTo(10,10) and a closing segment to (0,0),
\* and its points span exactly [0,10] x [0,10].
C21_CloseReturnsToSubpathStart ==
    svg.rendered =>
        /\ \A i \in DOMAIN svg.steps :
              (toUpperCase(svg.path[i].type) = "Z" /\ MovesBefore(i) # {}) =>
                  LET start == SubpathStart(i)
                      step == svg.steps[i]
                  IN /\ step.ops = <<Op("lineTo", start), Op("closePath", <<>>)>>
                     /\ <<step.after.currentX, step.after.currentY>> = start
                     /\ (/\ i < Len(svg.path)
                         /\ svg.path[i + 1].type \in {"l", "m"}
                         /\ ~TooFewNumbers(svg.path[i + 1])) =>
                           svg.steps[i + 1].ops[1].args =
                               <<start[1] + svg.path[i + 1].coords[1],
                                 start[2] + svg.path[i + 1].coords[2]>>
        /\ svg.path = Triangle =>
              /\ svg.ops = <<Op("beginPath", <<>>), Op("moveTo", <<0, 0>>),
                             Op("lineTo", <<10, 0>>), Op("lineTo", <<10, 10>>),
                             Op("lineTo", <<0, 0>>), Op("closePath", <<>>)>>
              /\ { p[1] : p \in PointsOf(svg.ops) } = {0, 10}
              /\ { p[2] : p \in PointsOf(svg.ops) } = {0, 10}

\* "M10 20 L10 10 Z l5 5": the close command draws back to (10,20) and the
\* relative line after it ends at (15,25).
C21_Witness ==
    /\ svg.rendered
    /\ svg.path = <<Command("M", <<10, 20>>), Command("L", <<10, 10>>),
                    Command("Z", <<>>), Command("l", <<5, 5>>)>>
    /\ svg.steps[3].ops = <<Op("lineTo", <<10, 20>>), Op("closePath", <<>>)>>
    /\ svg.steps[4].ops = <<Op("lineTo", <<15, 25>>)>>

(***************************************************************************)
(* Properties of applyTransform (SpecTransform)                            *)
(***************************************************************************)
\* The surface call one part of the attribute stands for
PartCall(part) ==
    CASE part.fn = "translate" -> Op("translate", part.args)
      [] part.fn = "scale" ->
            Op("scale", <<part.args[1],
                          IF Len(part.args) = 2 THEN part.args[2] ELSE part.args[1]>>)
      [] part.fn = "rotate" -> Op("rotate", <<part.args[1], 180>>)

InTextualOrder(transform) == [k \in DOMAIN transform |-> PartCall(transform[k])]

Swapped(transform) == <<transform[2], transform[1]>>

\* C22: a transform attribute is applied as the composition of its
\* translate(x,y), scale(sx[,sy]) and rotate(deg) parts in the order in which
\* they appear in the text, so "rotate(90) translate(10,0)" and
\* "translate(10,0) rotate(90)" yield different sequences of surface calls.
C22_TransformInTextualOrder ==
    svg.applied =>
        /\ svg.ops = InTextualOrder(svg.transform)
        /\ (Len(svg.transform) = 2 /\ svg.transform[1].fn # svg.transform[2].fn) =>
              svg.ops # applyTransform(Swapped(svg.transform))

(***************************************************************************)
(* Properties of renderLatex (SpecLatex)                                   *)
(***************************************************************************)
\* The left and right ends of the drawn characters
DrawnLefts == { svg.draws[k].x : k \in DOMAIN svg.draws }
DrawnRights == { RAdd(svg.draws[k].x, svg.draws[k].advance) : k \in DOMAIN svg.draws }
DrawnMin == CHOOSE a \in DrawnLefts : \A b \in DrawnLefts : ~RLt(b, a)
DrawnMax == CHOOSE a \in DrawnRights : \A b \in DrawnRights : ~RLt(a, b)

\* C23: the centering pass offsets every run's x by -(min+max)/2, min and
\* max being the extremes of the advance extent the drawn characters of all
\* runs cover, so the midpoint of the drawn horizontal extent lies on the
\* anchor x, also when runs hold characters with a missing or path-less
\* glyph.
C23_DrawnTextCentred ==
    (svg.typeset /\ svg.draws # <<>>) => RAdd(DrawnMin, DrawnMax) = Zero

\* With outlines for every character the text is centred: "aa" is drawn
\* from -6 to 6.
C23_OutlinedTextCentred ==
    (/\ svg.typeset
     /\ svg.draws # <<>>
     /\ \A k \in DOMAIN svg.draws : svg.draws[k].how = "glyph")
        => RAdd(DrawnMin, DrawnMax) = Zero

(***************************************************************************)
(* Properties of fade tracks (SpecFade)                                    *)
(***************************************************************************)
\* a number within [0, 1]
UnitNumber(v) ==
    /\ v.k = "num"
    /\ v.y = Zero
    /\ RGe(v.x, Zero)
    /\ RGe(One, v.x)

\* Initial opacities and the from and to of every fade track are in [0, 1].
FadeInputsInUnit ==
    /\ \A o \in DOMAIN scene.objects :
          UnitNumber(OrElse(scene.objects[o].initialOpacity, Num(One)))
    /\ \A i \in DOMAIN scene.animations :
          scene.animations[i].type = "fade" =>
              /\ UnitNumber(scene.animations[i].properties.from)
              /\ UnitNumber(scene.animations[i].properties.to)

\* C24: when the initial opacities and the from and to of the fade tracks are
\* within [0,1], the opacity of every object state is within [0,1] at every
\* time, for each of the four easings and for any number and order of
\* overlapping fade tracks.
C24_OpacityWithinUnit ==
    (Evaluated /\ FadeInputsInUnit) => UnitNumber(objState.opacity)

\* Two overlapping fades of "a", 0 -> 1 easeOut from 0 to 2 and 1 -> 1/2
\* easeInOut from 1 to 3, at t = 3/2: the later track gives
\* 1 - (1/2)(4 (1/4)^3) = 31/32.
C24_Witness ==
    /\ Evaluated
    /\ EvalObject.id = "a"
    /\ EvalTime = Rat(3, 2)
    /\ scene.animations =
          <<Track("a", "fade", <<0, 2>>, "easeOut", Props(Num(Zero), Num(One), <<>>, "")),
            Track("a", "fade", <<1, 2>>, "easeInOut", Props(Num(One), Num(Half), <<>>, ""))>>
    /\ objState.opacity = Num(Rat(31, 32))

(***************************************************************************)
(* Properties of getSceneStateAtTime (SpecSceneState)                      *)
(***************************************************************************)
SceneEvaluated == evalAt # NoEval /\ evalAt.obj = AllObjects

Reverse(seq) == [k \in DOMAIN seq |-> seq[Len(seq) + 1 - k]]

\* The tracks of the scene whose objectId is the id
TracksOf(id) ==
    LET HasId(anim) == anim.objectId = id IN SelectSeq(scene.animations, HasId)

\* The scene of one object and its tracks only
Alone(object) ==
    [duration |-> scene.duration, objects |-> <<object>>,
     animations |-> TracksOf(object.id)]

\* C25: getSceneStateAtTime has no cross-object coupling: the state of an
\* object depends only on that object and on the tracks whose objectId is
\* its id, so permuting the objects list, or changing another object or
\* another object's tracks, leaves it unchanged; tracks whose objectId
\* matches no object are skipped.
C25_NoCrossObjectCoupling ==
    SceneEvaluated =>
        /\ Len(objState) = Len(scene.objects)
        /\ \A o \in DOMAIN scene.objects :
              LET object == scene.objects[o]
                  own == getObjectStateAtTime(object, TracksOf(object.id), EvalTime)
              IN /\ MapHas(objState, object.id)
                 /\ MapGet(objState, object.id) = own
                 /\ MapGet(getSceneStateAtTime(
                        [scene EXCEPT !.objects = Reverse(scene.objects)], EvalTime),
                        object.id) = own
                 /\ MapGet(getSceneStateAtTime(Alone(object), EvalTime), object.id) = own

\* Objects b, a with a move of "ghost" and a fade of "b", at t = 1: "a" has
\* its initial state and "b" its initial position.
C25_Witness ==
    /\ SceneEvaluated
    /\ EvalTime = One
    /\ scene.objects = <<ObjB, ObjA>>
    /\ Len(scene.animations) = 2
    /\ scene.animations[1].objectId = "ghost" /\ scene.animations[1].type = "move"
    /\ scene.animations[2].objectId = "b" /\ scene.animations[2].type = "fade"
    /\ MapGet(objState, "a") = InitialState(ObjA)
    /\ MapGet(objState, "b") = [InitialState(ObjB) EXCEPT !.opacity = Num(One)]
    /\ Len(objState) = 2

(***************************************************************************)
(* validateScene accumulates (SpecValidate)                                *)
(***************************************************************************)
\* The violated checks of the scene: <<0, check>> for the scene itself,
\* <<i, check>> for animation i.
ViolatedChecks ==
    { v \in {<<0, "duration">>} : scene.duration <= 0 }
    \cup { v \in {<<0, "objects">>} : Len(scene.objects) = 0 }
    \cup { <<i, "unknown">> : i \in { j \in DOMAIN scene.animations :
                scene.animations[j].objectId \notin DeclaredIds } }
    \cup { <<i, "negative">> : i \in { j \in DOMAIN scene.animations :
                RLt(scene.animations[j].startTime, Zero) } }
    \cup { <<i, "beyond">> : i \in { j \in DOMAIN scene.animations :
                RLt(RInt(scene.duration), TrackEnd(scene.animations[j])) } }

\* The message of a violated check
MessageOf(v) ==
    CASE v[2] = "duration" -> ErrorMessage("Scene duration must be positive", "")
      [] v[2] = "objects" -> ErrorMessage("Scene must contain at least one object", "")
      [] v[2] = "unknown" ->
            ErrorMessage("Animation references unknown object",
                         scene.animations[v[1]].objectId)
      [] v[2] = "negative" ->
            ErrorMessage("Animation start time cannot be negative",
                         scene.animations[v[1]].objectId)
      [] v[2] = "beyond" ->
            ErrorMessage("Animation extends beyond scene duration",
                         scene.animations[v[1]].objectId)

OneMessagePerViolatedCheck ==
    Validated =>
        /\ Len(sg.errors) = Cardinality(ViolatedChecks)
        /\ \A v \in ViolatedChecks :
              \E e \in DOMAIN sg.errors : sg.errors[e] = MessageOf(v)
        /\ sg.err = "none"

\* C26: validateScene accumulates instead of short-circuiting and has no
\* side effect: the returned list holds one message for each violated check
\* (non-positive duration, empty objects, and per animation an unknown
\* objectId, a negative startTime, an end beyond the scene duration), it
\* never throws, and the scene is unchanged after the call.
C26_ValidateAccumulates ==
    /\ []OneMessagePerViolatedCheck
    /\ [][Validate => scene' = scene]_vars

\* Duration 0, no object and one track of "ghost" from -1 to 1: five
\* messages, the scene's two and the track's three.
C26_Witness ==
    /\ Validated
    /\ scene.duration = 0
    /\ scene.objects = <<>>
    /\ Len(scene.animations) = 1
    /\ scene.animations[1].objectId = "ghost"
    /\ scene.animations[1].startTime = RInt(0 - 1)
    /\ Len(sg.errors) = 5

(***************************************************************************)
(* Termination of finish() (SpecApiLive)                                   *)
(***************************************************************************)
\* C27: every call to finish() eventually settles provided the subprocess
\* eventually exits, whenever that exit happens relative to the call,
\* including when the subprocess has already closed before finish()
\* registers its 'close' listener.  (A run ended by an uncaught exception
\* is left out.)
C27_FinishSettles ==
    (finishP.st = "pending") ~> (finishP.st # "pending" \/ crashed)

(***************************************************************************)
(* Properties of scale tracks (SpecTimeline)                               *)
(***************************************************************************)
\* a point with numeric x and y
NumericPoint(v) == v.k = "pt" /\ v.x # NaN /\ v.y # NaN

\* A scale track whose from and to are numbers
UniformScale(animation) ==
    /\ animation.type = "scale"
    /\ animation.properties.from.k = "num"
    /\ animation.properties.to.k = "num"

\* C28: the scale field of every state returned by getObjectStateAtTime is a
\* point with numeric x and y at every time, for every scale track, including
\* uniform tracks whose from and to are scalars: while the track is active,
\* and at every time >= startTime + duration a uniform track with end value
\* s yields scale {x: s, y: s}.
C28_ScaleIsNumericPoint ==
    Evaluated =>
        /\ NumericPoint(objState.scale)
        /\ StartedTracks("scale") # {} =>
              LET animation == scene.animations[MaxOf(StartedTracks("scale"))] IN
              (UniformScale(animation) /\ RGe(EvalTime, TrackEnd(animation))) =>
                  objState.scale = Pt(animation.properties.to.x,
                                      animation.properties.to.x)

\* While every scale track of the object is active or not yet started the
\* scale is a numeric point.
C28_ActiveScaleIsNumericPoint ==
    (Evaluated /\ \A i \in StartedTracks("scale") :
                     ActiveAt(scene.animations[i], EvalTime))
        => NumericPoint(objState.scale)

(***************************************************************************)
(* Properties of tracks of duration 0 (SpecTimeline)                       *)
(***************************************************************************)
\* The value holds a not-a-number
HasNaN(v) ==
    \/ v.k \in {"num", "pt"} /\ (v.x = NaN \/ v.y = NaN)
    \/ v.k = "str" /\ NaNRounded \in {v.c[2], v.c[3], v.c[4]}

\* The tracks without the tracks of duration 0 that start after the time
WithoutLaterInstantTracks ==
    LET Kept(anim) == ~(anim.duration = Zero /\ RLt(EvalTime, anim.startTime))
    IN SelectSeq(scene.animations, Kept)

\* C29: a track with duration 0 never reaches the progress division: at
\* every time >= startTime it contributes its end value and at every time
\* < startTime it contributes nothing, so no state field is ever computed
\* from a division by zero.
C29_InstantTrackNeverDivides ==
    Evaluated =>
        /\ \A property \in StateProperties :
              /\ ~HasNaN(StateField(objState, property))
              /\ StartedTracks(property) # {} =>
                    LET animation == scene.animations[MaxOf(StartedTracks(property))]
                    IN animation.duration = Zero =>
                          StateField(objState, property) = getAnimationEndValue(animation)
        /\ objState = getObjectStateAtTime(EvalObject, WithoutLaterInstantTracks, EvalTime)

\* The fade 0 -> 1 of duration 0 at t = 1, evaluated at its start: the
\* opacity is 1.
C29_Witness ==
    /\ Evaluated
    /\ EvalObject.id = "a"
    /\ EvalTime = One
    /\ Len(scene.animations) = 1
    /\ scene.animations[1].type = "fade"
    /\ scene.animations[1].startTime = One
    /\ scene.animations[1].duration = Zero
    /\ scene.animations[1].properties.to = Num(One)
    /\ objState.opacity = Num(One)

(***************************************************************************)
(* Listeners of writeFrame (Spec)                                          *)
(***************************************************************************)
\* The listeners call i of writeFrame registered that are still on stdin
ListenersOf(i) == { l \in stdin.listeners : l.id = i }

\* C30: writeFrame leaves no listener behind: after a backpressured
\* writeFrame has settled, neither its 'drain' listener nor its 'error'
\* listener is still registered on the input stream, so over any sequence of
\* frames the number of listeners that writeFrame has registered on the
\* stream never exceeds two.
C30_WriteFrameLeavesNoListener ==
    /\ \A i \in DOMAIN wf : wf[i].st # "pending" => ListenersOf(i) = {}
    /\ Cardinality(stdin.listeners) <= 2

\* The first frame met backpressure and was resolved by a drain, the second
\* met it too and waits with its two listeners, the only ones on the stream.
C30_Witness ==
    /\ Len(wf) = 2
    /\ ~wf[1].flushed /\ wf[1].bytes /\ wf[1].st = "resolved"
    /\ ~wf[2].flushed /\ wf[2].st = "pending"
    /\ stdin.listeners = {Listener("drain", 2), Listener("error", 2)}

====
